---- MODULE Spec2Model ----
(***************************************************************************)
(* Blackjack bet-spread simulator: the engine of                           *)
(* backend/app/engine/simulation.py as a state machine: run_simulation,    *)
(* the chunked driver run_simulation_parallel, and the pure policy         *)
(* functions.                                                              *)
(*                                                                         *)
(* Representation.                                                         *)
(*  - Money is kept in half currency units (every amount the engine forms  *)
(*    is a multiple of bet/2): bet, profit and the running totals hold     *)
(*    twice the Python value, total_sq_profit four times.                  *)
(*  - A true count is the exact rational [num, den] with den > 0; only its *)
(*    floor is ever consulted by the code.                                 *)
(*  - Deck quantities are kept in cards (1 deck = 52 cards), so 0.25 deck  *)
(*    is 13 and deck_estimation_step is request.deck_estimation_step * 52. *)
(*  - rng.shuffle is a nondeterministic choice: the variable shoe holds    *)
(*    the multiset of the undealt cards shoe[pointer:], and a draw takes   *)
(*    any rank still present in it.  The variable dealt_ranks bounds the   *)
(*    shuffles explored in a run: only these ranks come up among the cards *)
(*    that are dealt.                                                      *)
(*  - request.hands (at least 100 after validation) and the floors of the  *)
(*    poll intervals are scaled down together: see Scenarios, the bounds.  *)
(***************************************************************************)
EXTENDS Integers, Sequences, FiniteSets, TLC

(***************************************************************************)
(* Bounds of the model.                                                    *)
(***************************************************************************)
\* stand-in for the 1_000 floor of cancel_check_interval
MinCancelInterval == 2
\* stand-in for the 10_000 floor of progress_interval
MinProgressInterval == 2
\* n_total / n_zero are Python floats: x + 1.0 = x from 2^53 on. FloatExactMax
\* stands in for 2^53.
FloatExactMax == 4

(***************************************************************************)
(* Cards and hands.                                                        *)
(***************************************************************************)
CARD_ORDER == <<"2", "3", "4", "5", "6", "7", "8", "9", "T", "J", "Q", "K", "A">>

Ranks == {CARD_ORDER[i] : i \in 1..Len(CARD_ORDER)}

TenRanks == {"T", "J", "Q", "K"}

CARD_VALUES(c) ==
    CASE c = "2" -> 2 [] c = "3" -> 3 [] c = "4" -> 4 [] c = "5" -> 5
      [] c = "6" -> 6 [] c = "7" -> 7 [] c = "8" -> 8 [] c = "9" -> 9
      [] c \in TenRanks -> 10
      [] c = "A" -> 11

Max(a, b) == IF a >= b THEN a ELSE b

Min(a, b) == IF a <= b THEN a ELSE b

RECURSIVE SumValues(_)
SumValues(cards) ==
    IF cards = <<>> THEN 0 ELSE CARD_VALUES(Head(cards)) + SumValues(Tail(cards))

RECURSIVE CountAces(_)
CountAces(cards) ==
    IF cards = <<>> THEN 0
    ELSE (IF Head(cards) = "A" THEN 1 ELSE 0) + CountAces(Tail(cards))

\* the while loop of hand_value: downgrade aces while the hand is over 21
RECURSIVE SoftDowngrade(_, _)
SoftDowngrade(total, aces) ==
    CHOOSE r \in {IF p[1] > 21 /\ p[2] > 0 THEN SoftDowngrade(p[1] - 10, p[2] - 1)
                  ELSE [total |-> p[1], aces |-> p[2]] : p \in {<<total, aces>>}} : TRUE

hand_value(cards) ==
    CHOOSE v \in {[total |-> r.total, soft |-> (r.aces > 0 /\ r.total <= 21)] :
                  r \in {SoftDowngrade(SumValues(cards), CountAces(cards))}} : TRUE

\* variant: only an ace followed by a ten-valued card is a blackjack
is_blackjack_AceFirst(cards) ==
    /\ Len(cards) = 2
    /\ cards[1] = "A"
    /\ cards[2] \in TenRanks

is_blackjack(cards) ==
    /\ Len(cards) = 2
    /\ \E i \in 1..Len(cards) : cards[i] = "A"
    /\ \E i \in 1..Len(cards) : cards[i] \in TenRanks

upcard_key(card) == IF card \in TenRanks THEN "T" ELSE card

(***************************************************************************)
(* Deviations.  A hand key f"{total}{'s' if soft else ''}v{up}" with its   *)
(* optional "_surrender" suffix is the record [total, soft, up, suffix];   *)
(* the sentinel key "insurance" is InsuranceKey.                           *)
(***************************************************************************)
HandKey(total, soft, up) == [total |-> total, soft |-> soft, up |-> up, suffix |-> ""]

SurrenderKey(key) == [key EXCEPT !.suffix = "_surrender"]

InsuranceKey == [total |-> 0, soft |-> FALSE, up |-> "insurance", suffix |-> ""]

Floor(tc) == tc.num \div tc.den

\* list.sort(key=tc_floor): a stable insertion sort
RECURSIVE InsertByFloor(_, _)
InsertByFloor(sorted, d) ==
    IF sorted = <<>> THEN <<d>>
    ELSE IF Head(sorted).tc_floor <= d.tc_floor
         THEN <<Head(sorted)>> \o InsertByFloor(Tail(sorted), d)
         ELSE <<d>> \o sorted

RECURSIVE SortByFloor(_)
SortByFloor(s) ==
    IF s = <<>> THEN <<>>
    ELSE InsertByFloor(SortByFloor(SubSeq(s, 1, Len(s) - 1)), s[Len(s)])

RECURSIVE SelectKey(_, _)
SelectKey(devs, key) ==
    IF devs = <<>> THEN <<>>
    ELSE (IF Head(devs).hand_key = key THEN <<Head(devs)>> ELSE <<>>)
         \o SelectKey(Tail(devs), key)

\* dev_index: hand_key -> the deviations of that key, ascending tc_floor
DevIndex(deviations) ==
    [key \in {deviations[i].hand_key : i \in 1..Len(deviations)} |->
        SortByFloor(SelectKey(deviations, key))]

\* the inner for loop of apply_deviation over one key's list: <<action>> of the
\* first entry with tc_floor <= floor_tc, <<>> when the loop falls through
RECURSIVE FirstMatch(_, _)
FirstMatch(devs, floor_tc) ==
    IF devs = <<>> THEN <<>>
    ELSE IF floor_tc >= Head(devs).tc_floor THEN <<Head(devs).action>>
         ELSE FirstMatch(Tail(devs), floor_tc)

apply_deviation(hand_key, true_count, deviations) ==
    LET floor_tc == Floor(true_count)
        m1 == IF hand_key \in DOMAIN deviations
              THEN FirstMatch(deviations[hand_key], floor_tc) ELSE <<>>
        k2 == SurrenderKey(hand_key)
        m2 == IF k2 \in DOMAIN deviations
              THEN FirstMatch(deviations[k2], floor_tc) ELSE <<>>
    IN  IF m1 # <<>> THEN m1[1] ELSE IF m2 # <<>> THEN m2[1] ELSE ""

(***************************************************************************)
(* Strategy tables.                                                        *)
(***************************************************************************)
\* variant: the table of hit_soft_17 = true, whatever the rules say
basic_strategy_action_AlwaysH17(player, dealer_up, rules) ==
    LET hv == hand_value(player)
        total == hv.total
        soft == hv.soft
        up == upcard_key(dealer_up)
    IN  IF rules.surrender /\ total = 16 /\ up \in {"9", "T", "A"} THEN "R"
        ELSE IF rules.surrender /\ total = 15 /\ up = "T" THEN "R"
        ELSE IF ~soft THEN
            IF total >= 17 THEN "S"
            ELSE IF total >= 13 /\ total <= 16
                 THEN (IF up \in {"2", "3", "4", "5", "6"} THEN "S" ELSE "H")
            ELSE IF total = 12
                 THEN (IF up \in {"4", "5", "6"} THEN "S" ELSE "H")
            ELSE IF total = 11
                 THEN (IF up = "A" /\ FALSE THEN "H" ELSE "DH")
            ELSE IF total = 10
                 THEN (IF up \notin {"T", "A"} THEN "DH" ELSE "H")
            ELSE IF total = 9
                 THEN (IF up = "2" /\ TRUE THEN "DH"
                       ELSE IF up \in {"3", "4", "5", "6"} THEN "DH" ELSE "H")
            ELSE "H"
        ELSE
            IF total >= 19 THEN "S"
            ELSE IF total = 18
                 THEN (IF up = "2" THEN (IF TRUE THEN "DS" ELSE "S")
                       ELSE IF up \in {"3", "4", "5", "6"} THEN "DS"
                       ELSE IF up \in {"7", "8"} THEN "S"
                       ELSE "H")
            ELSE IF total = 17
                 THEN (IF up \in {"3", "4", "5", "6"} THEN "DH" ELSE "H")
            ELSE IF total \in {15, 16}
                 THEN (IF up \in {"4", "5", "6"} THEN "DH" ELSE "H")
            ELSE IF total \in {13, 14}
                 THEN (IF up \in {"5", "6"} THEN "DH" ELSE "H")
            ELSE "H"

basic_strategy_action(player, dealer_up, rules) ==
    LET hv == hand_value(player)
        total == hv.total
        soft == hv.soft
        up == upcard_key(dealer_up)
    IN  IF rules.surrender /\ total = 16 /\ up \in {"9", "T", "A"} THEN "R"
        ELSE IF rules.surrender /\ total = 15 /\ up = "T" THEN "R"
        ELSE IF ~soft THEN
            IF total >= 17 THEN "S"
            ELSE IF total >= 13 /\ total <= 16
                 THEN (IF up \in {"2", "3", "4", "5", "6"} THEN "S" ELSE "H")
            ELSE IF total = 12
                 THEN (IF up \in {"4", "5", "6"} THEN "S" ELSE "H")
            ELSE IF total = 11
                 THEN (IF up = "A" /\ ~rules.hit_soft_17 THEN "H" ELSE "DH")
            ELSE IF total = 10
                 THEN (IF up \notin {"T", "A"} THEN "DH" ELSE "H")
            ELSE IF total = 9
                 THEN (IF up = "2" /\ rules.hit_soft_17 THEN "DH"
                       ELSE IF up \in {"3", "4", "5", "6"} THEN "DH" ELSE "H")
            ELSE "H"
        ELSE
            IF total >= 19 THEN "S"
            ELSE IF total = 18
                 THEN (IF up = "2" THEN (IF rules.hit_soft_17 THEN "DS" ELSE "S")
                       ELSE IF up \in {"3", "4", "5", "6"} THEN "DS"
                       ELSE IF up \in {"7", "8"} THEN "S"
                       ELSE "H")
            ELSE IF total = 17
                 THEN (IF up \in {"3", "4", "5", "6"} THEN "DH" ELSE "H")
            ELSE IF total \in {15, 16}
                 THEN (IF up \in {"4", "5", "6"} THEN "DH" ELSE "H")
            ELSE IF total \in {13, 14}
                 THEN (IF up \in {"5", "6"} THEN "DH" ELSE "H")
            ELSE "H"

\* variant: the table of double_after_split = true, whatever the rules say
pair_strategy_action_AlwaysDAS(rank, dealer_up, rules) ==
    LET up == upcard_key(dealer_up)
    IN  IF rank = "A" THEN "P"
        ELSE IF rank \in TenRanks THEN "S"
        ELSE IF rank = "9"
             THEN (IF up \in {"2", "3", "4", "5", "6", "8", "9"} THEN "P" ELSE "S")
        ELSE IF rank = "8" THEN "P"
        ELSE IF rank = "7"
             THEN (IF up \in {"2", "3", "4", "5", "6", "7"} THEN "P" ELSE "H")
        ELSE IF rank = "6"
             THEN (IF TRUE
                   THEN (IF up \in {"2", "3", "4", "5", "6"} THEN "P" ELSE "H")
                   ELSE (IF up \in {"3", "4", "5", "6"} THEN "P" ELSE "H"))
        ELSE IF rank = "5"
             THEN (IF up \in {"2", "3", "4", "5", "6", "7", "8", "9"} THEN "D" ELSE "H")
        ELSE IF rank = "4"
             THEN (IF TRUE /\ up \in {"5", "6"} THEN "P" ELSE "H")
        ELSE IF rank \in {"2", "3"}
             THEN (IF TRUE
                   THEN (IF up \in {"2", "3", "4", "5", "6", "7"} THEN "P" ELSE "H")
                   ELSE (IF up \in {"4", "5", "6", "7"} THEN "P" ELSE "H"))
        ELSE "H"

pair_strategy_action(rank, dealer_up, rules) ==
    LET up == upcard_key(dealer_up)
    IN  IF rank = "A" THEN "P"
        ELSE IF rank \in TenRanks THEN "S"
        ELSE IF rank = "9"
             THEN (IF up \in {"2", "3", "4", "5", "6", "8", "9"} THEN "P" ELSE "S")
        ELSE IF rank = "8" THEN "P"
        ELSE IF rank = "7"
             THEN (IF up \in {"2", "3", "4", "5", "6", "7"} THEN "P" ELSE "H")
        ELSE IF rank = "6"
             THEN (IF rules.double_after_split
                   THEN (IF up \in {"2", "3", "4", "5", "6"} THEN "P" ELSE "H")
                   ELSE (IF up \in {"3", "4", "5", "6"} THEN "P" ELSE "H"))
        ELSE IF rank = "5"
             THEN (IF up \in {"2", "3", "4", "5", "6", "7", "8", "9"} THEN "D" ELSE "H")
        ELSE IF rank = "4"
             THEN (IF rules.double_after_split /\ up \in {"5", "6"} THEN "P" ELSE "H")
        ELSE IF rank \in {"2", "3"}
             THEN (IF rules.double_after_split
                   THEN (IF up \in {"2", "3", "4", "5", "6", "7"} THEN "P" ELSE "H")
                   ELSE (IF up \in {"4", "5", "6", "7"} THEN "P" ELSE "H"))
        ELSE "H"

\* variant: a double is returned whether or not the hand can double
choose_action_NoDowngrade(player, dealer_up, true_count, deviations, rules, can_double) ==
    LET hv == hand_value(player)
        hand_key == HandKey(hv.total, hv.soft, upcard_key(dealer_up))
        dev_action == apply_deviation(hand_key, true_count, deviations)
        action == basic_strategy_action(player, dealer_up, rules)
    IN  IF dev_action # "" THEN dev_action
        ELSE IF action \in {"DH", "DS"} THEN "D"
        ELSE action

choose_action(player, dealer_up, true_count, deviations, rules, can_double) ==
    LET hv == hand_value(player)
        hand_key == HandKey(hv.total, hv.soft, upcard_key(dealer_up))
        dev_action == apply_deviation(hand_key, true_count, deviations)
        action == basic_strategy_action(player, dealer_up, rules)
    IN  IF dev_action # ""
        THEN (IF dev_action = "D" /\ ~can_double THEN "H" ELSE dev_action)
        ELSE IF action = "DH" THEN (IF can_double THEN "D" ELSE "H")
        ELSE IF action = "DS" THEN (IF can_double THEN "D" ELSE "S")
        ELSE action

(***************************************************************************)
(* Deck estimation and the bet ramp.                                       *)
(***************************************************************************)
\* 0.25 deck, in cards
QuarterDeck == 13

DeckCards == 52

\* Python's round(): to nearest, ties to even; n / d with d > 0
RoundHalfEven(n, d) ==
    LET q == n \div d
        r == n % d
    IN  IF 2 * r < d THEN q
        ELSE IF 2 * r > d THEN q + 1
        ELSE IF q % 2 = 0 THEN q ELSE q + 1

CeilDiv(n, d) == -((-n) \div d)

\* variant: the quantized estimate is returned as it is, also when it is 0
estimate_decks_NoMinimum(remaining_cards, step, rounding) ==
    IF step <= 0 THEN Max(remaining_cards, QuarterDeck)
    ELSE IF rounding = "floor" THEN (remaining_cards \div step) * step
    ELSE IF rounding = "ceil" THEN CeilDiv(remaining_cards, step) * step
    ELSE RoundHalfEven(remaining_cards, step) * step

\* estimate_decks, in cards: step is deck_estimation_step * 52
estimate_decks(remaining_cards, step, rounding) ==
    IF step <= 0 THEN Max(remaining_cards, QuarterDeck)
    ELSE LET est == IF rounding = "floor" THEN (remaining_cards \div step) * step
                    ELSE IF rounding = "ceil" THEN CeilDiv(remaining_cards, step) * step
                    ELSE RoundHalfEven(remaining_cards, step) * step
         IN  Max(est, step)

\* variant: the loop stops at the first step it selects
SelectStep_First(ramp_steps, tc_floor, i, selected) ==
    IF i > Len(ramp_steps) THEN selected
    ELSE IF tc_floor >= ramp_steps[i].tc_floor THEN i
    ELSE selected

\* the for loop of choose_bet, with its break: index of the selected step, 0 = None
RECURSIVE SelectStep(_, _, _, _)
SelectStep(ramp_steps, tc_floor, i, selected) ==
    IF i > Len(ramp_steps) THEN selected
    ELSE IF tc_floor >= ramp_steps[i].tc_floor
         THEN SelectStep(ramp_steps, tc_floor, i + 1, i)
         ELSE selected

\* choose_bet: [raised |-> TRUE] stands for the IndexError of ramp_steps[0]
choose_bet(true_count, ramp_steps, unit_size) ==
    LET sel == SelectStep(ramp_steps, Floor(true_count), 1, 0)
        idx == IF sel = 0 THEN 1 ELSE sel
    IN  IF idx > Len(ramp_steps) THEN [raised |-> TRUE, bet |-> 0]
        ELSE [raised |-> FALSE, bet |-> 2 * ramp_steps[idx].units * unit_size]

(***************************************************************************)
(* Exact rationals [num, den], den > 0, in lowest terms (the floats of the *)
(* Welford statistics, in exact arithmetic).                               *)
(***************************************************************************)
Abs(a) == IF a < 0 THEN -a ELSE a

RECURSIVE Gcd(_, _)
Gcd(a, b) == IF b = 0 THEN a ELSE Gcd(b, a % b)

\* n/d in lowest terms, den > 0.  Each operator takes the values of its arguments
\* once (p is bound to them) and computes on those.
Rat(n, d) ==
    CHOOSE r \in {LET s == IF p[2] < 0 THEN -1 ELSE 1
                      g == Gcd(Abs(p[1]), Abs(p[2]))
                  IN  [num |-> (s * p[1]) \div g, den |-> (s * p[2]) \div g] :
                  p \in {<<n, d>>}} : TRUE

RatZero == [num |-> 0, den |-> 1]

RatAdd(a, b) ==
    CHOOSE r \in {Rat(p[1].num * p[2].den + p[2].num * p[1].den, p[1].den * p[2].den) :
                  p \in {<<a, b>>}} : TRUE

RatSub(a, b) ==
    CHOOSE r \in {Rat(p[1].num * p[2].den - p[2].num * p[1].den, p[1].den * p[2].den) :
                  p \in {<<a, b>>}} : TRUE

RatMul(a, b) ==
    CHOOSE r \in {Rat(p[1].num * p[2].num, p[1].den * p[2].den) : p \in {<<a, b>>}} : TRUE

RatDivInt(a, n) == CHOOSE r \in {Rat(p[1].num, p[1].den * p[2]) : p \in {<<a, n>>}} : TRUE

(***************************************************************************)
(* The state of one run_simulation call.                                   *)
(***************************************************************************)
VARIABLES
    request,            \* the SimulationRequest
    dealt_ranks,        \* the ranks the explored shuffles deal
    cancel_flag,        \* what cancel_check() returns (sim_runner's threading.Event)
    pc,                 \* position of the engine in run_simulation
    shoe,               \* multiset of the undealt cards shoe[pointer:]
    cut_card,
    pointer,
    running_count,
    total_profit,
    total_sq_profit,
    total_initial_bet,
    rounds_played,
    tc_stats,           \* bucket -> [n_total, n_iba, n_zero, mean, m2]
    last_round_result,  \* "None", "win", "loss", "push"
    last_round_played,
    is_wonged_out,
    was_cancelled,
    round_tc_bucket,
    bet,
    tc_for_dev,         \* the deviation true count computed at the top of the round
    player_start,
    dealer,
    insurance_payout,
    queue,
    hand,               \* the hand popped from the queue, <<h>>, or <<>>
    finished_hands,
    progress,           \* the calls of progress_cb so far
    result,             \* <<>> until the call returns, then <<SimulationResult>>
    par_pc,             \* position of run_simulation_parallel ("off": not called)
    num_workers,
    futures,            \* chunk index -> state of its future
    chunks,             \* the SimulationChunks collected by the driver
    completed,          \* completed_hands, completed_profit, completed_sq_profit, completed_bet
    fn_args,            \* a call of a pure function: its arguments
    fn_ret,             \* and what it returned
    runner              \* InMemorySimulationRunner: position of start(), the length of
                        \* progress when start() wrote "queued", the last status reported

shoe_vars == <<shoe, cut_card, pointer, running_count>>

total_vars == <<total_profit, total_sq_profit, total_initial_bet, rounds_played, tc_stats>>

wong_vars == <<last_round_result, last_round_played, is_wonged_out>>

round_vars == <<round_tc_bucket, bet, tc_for_dev, player_start, dealer, insurance_payout,
                queue, hand, finished_hands>>

\* what no engine step changes
fixed_vars == <<request, dealt_ranks, num_workers, fn_args, fn_ret, runner>>

driver_vars == <<par_pc, futures, chunks, completed>>

engine_vars == <<pc, shoe_vars, total_vars, wong_vars, was_cancelled, round_vars>>

vars == <<fixed_vars, driver_vars, cancel_flag, engine_vars, progress, result>>

(***************************************************************************)
(* Shoe and counter.                                                       *)
(***************************************************************************)
\* build_shoe as a multiset: 4 * decks of each rank
build_shoe(decks) == [c \in Ranks |-> 4 * decks]

ShoeLen(rules) == DeckCards * rules.decks

\* int(len(shoe) * rules.penetration), penetration in percent
CutCard(rules) == (ShoeLen(rules) * rules.penetration) \div 100

ShoeState == [shoe |-> shoe, cut_card |-> cut_card, pointer |-> pointer,
              running_count |-> running_count]

\* variant: the shoe is reshuffled only once the pointer is past the cut card
Reshuffled_Late(ds, req) ==
    IF ds.pointer > ds.cut_card
    THEN [shoe |-> build_shoe(req.rules.decks), cut_card |-> CutCard(req.rules),
          pointer |-> 0, running_count |-> 0]
    ELSE ds

\* variant: the reshuffle keeps the running count
Reshuffled_KeepCount(ds, req) ==
    IF ds.pointer >= ds.cut_card
    THEN [shoe |-> build_shoe(req.rules.decks), cut_card |-> CutCard(req.rules),
          pointer |-> 0, running_count |-> ds.running_count]
    ELSE ds

\* the reshuffle branch of draw_card
Reshuffled(ds, req) ==
    IF ds.pointer >= ds.cut_card
    THEN [shoe |-> build_shoe(req.rules.decks), cut_card |-> CutCard(req.rules),
          pointer |-> 0, running_count |-> 0]
    ELSE ds

TagOf(req, card) == IF card \in DOMAIN req.tags THEN req.tags[card] ELSE 0

\* shoe[pointer] can be this card
CanDraw(ds, req, card) == card \in dealt_ranks /\ Reshuffled(ds, req).shoe[card] > 0

\* draw_card, given the card that shoe[pointer] turns out to be
draw_card(ds, req, card) ==
    LET r == Reshuffled(ds, req)
    IN  [shoe |-> [r.shoe EXCEPT ![card] = @ - 1],
         cut_card |-> r.cut_card,
         pointer |-> r.pointer + 1,
         running_count |-> r.running_count + TagOf(req, card)]

SetShoe(ds) ==
    /\ shoe' = ds.shoe
    /\ cut_card' = ds.cut_card
    /\ pointer' = ds.pointer
    /\ running_count' = ds.running_count

(***************************************************************************)
(* True counts.                                                            *)
(***************************************************************************)
RemainingCards(ds, req) == ShoeLen(req.rules) - ds.pointer

TrueCountRaw(ds, req) ==
    [num |-> ds.running_count * DeckCards, den |-> Max(RemainingCards(ds, req), QuarterDeck)]

TrueCountEst(ds, req) ==
    [num |-> ds.running_count * DeckCards,
     den |-> estimate_decks(RemainingCards(ds, req), req.deck_estimation_step,
                            req.deck_estimation_rounding)]

TcForBet(ds, req) ==
    IF req.use_estimated_tc_for_bet THEN TrueCountEst(ds, req) ELSE TrueCountRaw(ds, req)

TcForDev(ds, req) ==
    IF req.use_estimated_tc_for_deviations THEN TrueCountEst(ds, req)
    ELSE TrueCountRaw(ds, req)

(***************************************************************************)
(* Per-bucket statistics.                                                  *)
(***************************************************************************)
ZeroStat == [n_total |-> 0, n_iba |-> 0, n_zero |-> 0, mean |-> RatZero, m2 |-> RatZero]

\* x += 1.0 on a float
FloatInc(x) == IF x < FloatExactMax THEN x + 1 ELSE x

\* tc_stats after bucket_stats(tc_bucket) (dict.setdefault)
bucket_stats(stats, tc_bucket) ==
    IF tc_bucket \in DOMAIN stats THEN stats ELSE stats @@ (tc_bucket :> ZeroStat)

\* variant: the bucket is created and the round is not counted in n_total
IncTotal_Uncounted(stats, b) == bucket_stats(stats, b)

IncTotal(stats, b) ==
    LET s == bucket_stats(stats, b) IN [s EXCEPT ![b].n_total = FloatInc(@)]

\* variant: the skipped round is counted in n_iba
IncZero_AsIba(stats, b) ==
    LET s == bucket_stats(stats, b) IN [s EXCEPT ![b].n_iba = FloatInc(@)]

IncZero(stats, b) ==
    LET s == bucket_stats(stats, b) IN [s EXCEPT ![b].n_zero = FloatInc(@)]

\* variant: a pushed round is left out of the series
update_iba_stats_NoPush(stats, tc_bucket, profit, bet_amt) ==
    IF bet_amt <= 0 \/ profit = 0 THEN stats
    ELSE LET s == bucket_stats(stats, tc_bucket)
             n == FloatInc(s[tc_bucket].n_iba)
             x == Rat(profit, bet_amt)
             delta == RatSub(x, s[tc_bucket].mean)
             mean == RatAdd(s[tc_bucket].mean, RatDivInt(delta, n))
             m2 == RatAdd(s[tc_bucket].m2, RatMul(delta, RatSub(x, mean)))
         IN  [s EXCEPT ![tc_bucket] = [@ EXCEPT !.n_iba = n, !.mean = mean, !.m2 = m2]]

\* update_iba_stats: tc_stats after one Welford step on x = profit / bet_amt
update_iba_stats(stats, tc_bucket, profit, bet_amt) ==
    IF bet_amt <= 0 THEN stats
    ELSE LET s == bucket_stats(stats, tc_bucket)
             n == FloatInc(s[tc_bucket].n_iba)
             x == Rat(profit, bet_amt)
             delta == RatSub(x, s[tc_bucket].mean)
             mean == RatAdd(s[tc_bucket].mean, RatDivInt(delta, n))
             m2 == RatAdd(s[tc_bucket].m2, RatMul(delta, RatSub(x, mean)))
         IN  [s EXCEPT ![tc_bucket] = [@ EXCEPT !.n_iba = n, !.mean = mean, !.m2 = m2]]

(***************************************************************************)
(* run_simulation: the round loop.                                         *)
(***************************************************************************)
PROGRESS_DIVISOR == 50

CANCEL_DIVISOR == 100

progress_interval(target_rounds) == Max(target_rounds \div PROGRESS_DIVISOR, MinProgressInterval)

cancel_check_interval(target_rounds) == Max(target_rounds \div CANCEL_DIVISOR, MinCancelInterval)

ramp_steps(req) == req.bet_ramp.steps

dev_index(req) == DevIndex(req.deviations)

\* variant: the call reports the rounds and none of the totals
ProgressCall_NoTotals ==
    [done |-> rounds_played, total |-> request.hands, profit_sum |-> 0, profit_sq_sum |-> 0,
     bet_sum |-> 0]

ProgressCall == [done |-> rounds_played, total |-> request.hands, profit_sum |-> total_profit,
                 profit_sq_sum |-> total_sq_profit, bet_sum |-> total_initial_bet]

\* variant: every policy enters the wonged state as "anytime" does
WongedAfter_AlwaysAnytime(req, f, wonged, lrr, lrp) ==
    IF req.bet_ramp.wong_out_below = <<>> THEN wonged
    ELSE f < req.bet_ramp.wong_out_below[1]

\* the value of is_wonged_out after the bet decision at floor(tc_for_bet) = f
WongedAfter(req, f, wonged, lrr, lrp) ==
    IF req.bet_ramp.wong_out_below = <<>> THEN wonged
    ELSE IF f >= req.bet_ramp.wong_out_below[1] THEN FALSE
    ELSE IF wonged THEN TRUE
    ELSE LET policy == IF req.bet_ramp.wong_out_policy = "" THEN "anytime"
                       ELSE req.bet_ramp.wong_out_policy
         IN  IF policy = "anytime" THEN TRUE
             ELSE IF policy = "after_loss_only" THEN lrr = "loss"
             ELSE IF policy = "after_hand_only" THEN lrp
             ELSE wonged

\* the round at the top of the loop is skipped (the continue of the Wong-out branch)
WongSkip(req, f, wonged, lrr, lrp) ==
    /\ req.bet_ramp.wong_out_below # <<>>
    /\ f < req.bet_ramp.wong_out_below[1]
    /\ WongedAfter(req, f, wonged, lrr, lrp)

AtLoopTop == pc = "loop"

CancelObserved ==
    /\ rounds_played % cancel_check_interval(request.hands) = 0
    /\ cancel_flag

\* while rounds_played < target_rounds: the loop ends
LoopExit ==
    /\ AtLoopTop
    /\ rounds_played >= request.hands
    /\ pc' = "final"
    /\ UNCHANGED <<fixed_vars, driver_vars, cancel_flag, shoe_vars, total_vars, wong_vars, was_cancelled,
                   round_vars, progress, result>>

\* the cancellation poll breaks out of the loop
CancelBreak ==
    /\ AtLoopTop
    /\ rounds_played < request.hands
    /\ CancelObserved
    /\ was_cancelled' = TRUE
    /\ pc' = "final"
    /\ UNCHANGED <<fixed_vars, driver_vars, cancel_flag, shoe_vars, total_vars, wong_vars, round_vars,
                   progress, result>>

RoundBegins ==
    /\ AtLoopTop
    /\ rounds_played < request.hands
    /\ ~CancelObserved

\* a Wong-out skip: n_total, n_zero, two burn cards, continue
WongOutSkip ==
    /\ RoundBegins
    /\ LET f == Floor(TcForBet(ShoeState, request))
       IN  /\ WongSkip(request, f, is_wonged_out, last_round_result, last_round_played)
           /\ tc_stats' = IncZero(IncTotal(tc_stats, f), f)
           /\ is_wonged_out' = TRUE
           /\ last_round_played' = FALSE
           /\ \E c1, c2 \in dealt_ranks :
                /\ CanDraw(ShoeState, request, c1)
                /\ CanDraw(draw_card(ShoeState, request, c1), request, c2)
                /\ SetShoe(draw_card(draw_card(ShoeState, request, c1), request, c2))
    /\ UNCHANGED <<fixed_vars, driver_vars, cancel_flag, pc, total_profit, total_sq_profit, total_initial_bet,
                   rounds_played, last_round_result, was_cancelled, round_vars, progress,
                   result>>

\* a played round up to the bet: n_total, the Wong-out state, choose_bet
PlaceBet ==
    /\ RoundBegins
    /\ LET f == Floor(TcForBet(ShoeState, request))
           b == choose_bet(TcForBet(ShoeState, request), ramp_steps(request), request.unit_size)
       IN  /\ ~WongSkip(request, f, is_wonged_out, last_round_result, last_round_played)
           /\ ~b.raised
           /\ tc_stats' = IncTotal(tc_stats, f)
           /\ round_tc_bucket' = f
           /\ is_wonged_out' =
                WongedAfter(request, f, is_wonged_out, last_round_result, last_round_played)
           /\ tc_for_dev' = TcForDev(ShoeState, request)
           /\ bet' = b.bet
           /\ total_initial_bet' = total_initial_bet + b.bet
    /\ player_start' = <<>>
    /\ dealer' = <<>>
    /\ pc' = "deal"
    /\ UNCHANGED <<fixed_vars, driver_vars, cancel_flag, shoe_vars, total_profit, total_sq_profit, rounds_played,
                   last_round_result, last_round_played, was_cancelled, insurance_payout,
                   queue, hand, finished_hands, progress, result>>

\* choose_bet raises IndexError (ramp_steps[0] of an empty ramp): the exception
\* leaves run_simulation
PlaceBetRaises ==
    /\ RoundBegins
    /\ LET f == Floor(TcForBet(ShoeState, request))
           b == choose_bet(TcForBet(ShoeState, request), ramp_steps(request), request.unit_size)
       IN  /\ ~WongSkip(request, f, is_wonged_out, last_round_result, last_round_played)
           /\ b.raised
           /\ tc_stats' = IncTotal(tc_stats, f)
           /\ round_tc_bucket' = f
           /\ is_wonged_out' =
                WongedAfter(request, f, is_wonged_out, last_round_result, last_round_played)
           /\ tc_for_dev' = TcForDev(ShoeState, request)
    /\ pc' = "raised"
    /\ UNCHANGED <<fixed_vars, driver_vars, cancel_flag, shoe_vars, total_profit, total_sq_profit,
                   total_initial_bet, rounds_played, last_round_result, last_round_played,
                   was_cancelled, bet, player_start, dealer, insurance_payout, queue, hand,
                   finished_hands, progress, result>>

\* the initial deal: player_start = [draw, draw], then dealer = [draw, draw]
DealCard ==
    /\ pc = "deal"
    /\ \E c \in dealt_ranks :
         /\ CanDraw(ShoeState, request, c)
         /\ SetShoe(draw_card(ShoeState, request, c))
         /\ IF Len(player_start) < 2
            THEN /\ player_start' = Append(player_start, c)
                 /\ UNCHANGED dealer
            ELSE /\ dealer' = Append(dealer, c)
                 /\ UNCHANGED player_start
    /\ pc' = IF Len(player_start) = 2 /\ Len(dealer) = 1 THEN "insurance" ELSE "deal"
    /\ UNCHANGED <<fixed_vars, driver_vars, cancel_flag, total_vars, wong_vars, was_cancelled, round_tc_bucket,
                   bet, tc_for_dev, insurance_payout, queue, hand, finished_hands, progress,
                   result>>

\* the insurance check
InsurancePayout ==
    IF dealer[1] = "A" /\ apply_deviation(InsuranceKey, tc_for_dev, dev_index(request)) = "I"
    THEN (IF is_blackjack(dealer) THEN bet ELSE -(bet \div 2))
    ELSE 0

ResultOf(profit) == IF profit > 0 THEN "win" ELSE IF profit < 0 THEN "loss" ELSE "push"

\* end of a played round: rounds_played += 1, last_round_*, the periodic progress call.
\* The round's locals are dead from here on (each is assigned again before it is
\* read): they are put back to their initial values.
RoundRecorded(round_profit) ==
    /\ rounds_played' = rounds_played + 1
    /\ player_start' = <<>>
    /\ dealer' = <<>>
    /\ insurance_payout' = 0
    /\ queue' = <<>>
    /\ hand' = <<>>
    /\ finished_hands' = <<>>
    /\ bet' = 0
    /\ round_tc_bucket' = 0
    /\ tc_for_dev' = [num |-> 0, den |-> 1]
    /\ last_round_result' = ResultOf(round_profit)
    /\ last_round_played' = TRUE
    /\ progress' = IF (rounds_played + 1) % progress_interval(request.hands) = 0
                   THEN Append(progress, [done |-> rounds_played', total |-> request.hands,
                                          profit_sum |-> total_profit',
                                          profit_sq_sum |-> total_sq_profit',
                                          bet_sum |-> total_initial_bet])
                   ELSE progress
    /\ pc' = "loop"

\* a natural on either side resolves the round at once
NaturalResolve ==
    /\ pc = "insurance"
    /\ is_blackjack(dealer) \/ is_blackjack(player_start)
    /\ LET dealer_has_bj == is_blackjack(dealer)
           player_has_bj == is_blackjack(player_start)
           payout == request.rules.blackjack_payout
           profit == InsurancePayout +
                     (IF player_has_bj /\ ~dealer_has_bj THEN (bet * payout.num) \div payout.den
                      ELSE IF dealer_has_bj /\ player_has_bj THEN 0
                      ELSE -bet)
       IN  /\ total_profit' = total_profit + profit
           /\ total_sq_profit' = total_sq_profit + profit * profit
           /\ tc_stats' = update_iba_stats(tc_stats, round_tc_bucket, profit, bet)
           /\ RoundRecorded(profit)
    /\ UNCHANGED <<fixed_vars, driver_vars, cancel_flag, shoe_vars, total_initial_bet, is_wonged_out,
                   was_cancelled, result>>

\* no natural: the split-aware queue starts with the initial hand
StartPlay ==
    /\ pc = "insurance"
    /\ ~(is_blackjack(dealer) \/ is_blackjack(player_start))
    /\ insurance_payout' = InsurancePayout
    /\ queue' = <<[cards |-> player_start, bet |-> bet, split_depth |-> 0,
                   is_split_aces |-> FALSE, can_double |-> request.rules.double_any_two]>>
    /\ hand' = <<>>
    /\ finished_hands' = <<>>
    /\ pc' = "player"
    /\ UNCHANGED <<fixed_vars, driver_vars, cancel_flag, shoe_vars, total_vars, wong_vars, was_cancelled,
                   round_tc_bucket, bet, tc_for_dev, player_start, dealer, progress, result>>

(***************************************************************************)
(* run_simulation: the player's hands.                                     *)
(***************************************************************************)
FinishedHand(h, surrendered, doubled, bust) ==
    [cards |-> h.cards, bet |-> h.bet, surrendered |-> surrendered, doubled |-> doubled,
     bust |-> bust]

Playing == pc = "player" /\ hand # <<>>

\* hand = queue.pop(0)
PopHand ==
    /\ pc = "player"
    /\ hand = <<>>
    /\ queue # <<>>
    /\ hand' = <<Head(queue)>>
    /\ queue' = Tail(queue)
    /\ UNCHANGED <<fixed_vars, driver_vars, cancel_flag, pc, shoe_vars, total_vars, wong_vars, was_cancelled,
                   round_tc_bucket, bet, tc_for_dev, player_start, dealer, insurance_payout,
                   finished_hands, progress, result>>

\* while queue: the queue is empty
PlayerDone ==
    /\ pc = "player"
    /\ hand = <<>>
    /\ queue = <<>>
    /\ pc' = "dealer"
    /\ UNCHANGED <<fixed_vars, driver_vars, cancel_flag, shoe_vars, total_vars, wong_vars, was_cancelled,
                   round_vars, progress, result>>

\* variant: the split depth of the hand is not looked at
SplitTaken_AnyDepth(h) ==
    /\ Len(h.cards) = 2
    /\ h.cards[1] = h.cards[2]
    /\ (h.cards[1] # "A" \/ request.rules.resplit_aces \/ h.split_depth = 0)
    /\ pair_strategy_action(h.cards[1], dealer[1], request.rules) = "P"

\* the split opportunity is taken
SplitTaken(h) ==
    /\ Len(h.cards) = 2
    /\ h.cards[1] = h.cards[2]
    /\ h.split_depth < request.rules.max_splits
    /\ (h.cards[1] # "A" \/ request.rules.resplit_aces \/ h.split_depth = 0)
    /\ pair_strategy_action(h.cards[1], dealer[1], request.rules) = "P"

SplitHalf(h, card, drawn) ==
    [cards |-> <<card, drawn>>, bet |-> h.bet, split_depth |-> h.split_depth + 1,
     is_split_aces |-> (card = "A"),
     can_double |-> IF request.rules.double_after_split THEN request.rules.double_any_two
                    ELSE FALSE]

\* the action chosen for the hand at the current count
ActionFor(h) ==
    choose_action(h.cards, dealer[1], TcForDev(ShoeState, request), dev_index(request),
                  request.rules, h.can_double)

PlayerFrame ==
    UNCHANGED <<fixed_vars, driver_vars, cancel_flag, pc, total_vars, wong_vars, was_cancelled, round_tc_bucket,
                bet, tc_for_dev, player_start, dealer, insurance_payout, progress, result>>

Split ==
    /\ Playing
    /\ SplitTaken(hand[1])
    /\ \E c1, c2 \in dealt_ranks :
         /\ CanDraw(ShoeState, request, c1)
         /\ CanDraw(draw_card(ShoeState, request, c1), request, c2)
         /\ SetShoe(draw_card(draw_card(ShoeState, request, c1), request, c2))
         /\ queue' = <<SplitHalf(hand[1], hand[1].cards[1], c1),
                       SplitHalf(hand[1], hand[1].cards[2], c2)>> \o queue
    /\ hand' = <<>>
    /\ UNCHANGED finished_hands
    /\ PlayerFrame

Surrender ==
    /\ Playing
    /\ ~SplitTaken(hand[1])
    /\ ActionFor(hand[1]) = "R" /\ request.rules.surrender
    /\ finished_hands' = Append(finished_hands, FinishedHand(hand[1], TRUE, FALSE, FALSE))
    /\ hand' = <<>>
    /\ UNCHANGED <<shoe_vars, queue>>
    /\ PlayerFrame

Stand ==
    /\ Playing
    /\ ~SplitTaken(hand[1])
    /\ ~(ActionFor(hand[1]) = "R" /\ request.rules.surrender)
    /\ ActionFor(hand[1]) = "S"
    /\ finished_hands' = Append(finished_hands, FinishedHand(hand[1], FALSE, FALSE, FALSE))
    /\ hand' = <<>>
    /\ UNCHANGED <<shoe_vars, queue>>
    /\ PlayerFrame

DoubleTaken(h) ==
    /\ ~(ActionFor(h) = "R" /\ request.rules.surrender)
    /\ ActionFor(h) = "D"
    /\ h.can_double

Double ==
    /\ Playing
    /\ ~SplitTaken(hand[1])
    /\ DoubleTaken(hand[1])
    /\ \E c \in dealt_ranks :
         /\ CanDraw(ShoeState, request, c)
         /\ SetShoe(draw_card(ShoeState, request, c))
         /\ LET h == [hand[1] EXCEPT !.bet = 2 * @, !.cards = Append(@, c)]
            IN  finished_hands' =
                  Append(finished_hands,
                         FinishedHand(h, FALSE, TRUE, hand_value(h.cards).total > 21))
    /\ hand' = <<>>
    /\ UNCHANGED queue
    /\ PlayerFrame

\* none of surrender, stand, double: the code falls to its hit branch
HitBranch(h) ==
    /\ ~SplitTaken(h)
    /\ ~(ActionFor(h) = "R" /\ request.rules.surrender)
    /\ ActionFor(h) # "S"
    /\ ~(ActionFor(h) = "D" /\ h.can_double)

\* a split-ace hand is finalized without drawing
SplitAcesStop ==
    /\ Playing
    /\ HitBranch(hand[1])
    /\ hand[1].is_split_aces /\ ~request.rules.hit_split_aces
    /\ finished_hands' = Append(finished_hands, FinishedHand(hand[1], FALSE, FALSE, FALSE))
    /\ hand' = <<>>
    /\ UNCHANGED <<shoe_vars, queue>>
    /\ PlayerFrame

Hit ==
    /\ Playing
    /\ HitBranch(hand[1])
    /\ ~(hand[1].is_split_aces /\ ~request.rules.hit_split_aces)
    /\ \E c \in dealt_ranks :
         /\ CanDraw(ShoeState, request, c)
         /\ SetShoe(draw_card(ShoeState, request, c))
         /\ LET h == [hand[1] EXCEPT !.cards = Append(@, c)]
                total == hand_value(h.cards).total
            IN  IF total >= 21
                THEN /\ finished_hands' =
                          Append(finished_hands, FinishedHand(h, FALSE, FALSE, total > 21))
                     /\ hand' = <<>>
                ELSE /\ hand' = <<h>>
                     /\ UNCHANGED finished_hands
    /\ UNCHANGED queue
    /\ PlayerFrame

(***************************************************************************)
(* run_simulation: the dealer and the resolution of the round.             *)
(***************************************************************************)
\* variant: the dealer stands on every 17
DealerMustDraw_Below17 == hand_value(dealer).total < 17

DealerMustDraw ==
    LET hv == hand_value(dealer)
    IN  hv.total < 17 \/ (hv.total = 17 /\ hv.soft /\ request.rules.hit_soft_17)

DealerDraw ==
    /\ pc = "dealer"
    /\ DealerMustDraw
    /\ \E c \in dealt_ranks :
         /\ CanDraw(ShoeState, request, c)
         /\ SetShoe(draw_card(ShoeState, request, c))
         /\ dealer' = Append(dealer, c)
    /\ UNCHANGED <<fixed_vars, driver_vars, cancel_flag, pc, total_vars, wong_vars, was_cancelled,
                   round_tc_bucket, bet, tc_for_dev, player_start, insurance_payout, queue,
                   hand, finished_hands, progress, result>>

\* variant: the dealer's bust is looked at before the surrender
HandProfit_DealerBustFirst(fh, dealer_total, insurance) ==
    LET player_total == hand_value(fh.cards).total
    IN  IF fh.bust THEN -fh.bet + insurance
        ELSE IF dealer_total > 21 THEN fh.bet + insurance
        ELSE IF fh.surrendered THEN -(fh.bet \div 2) + insurance
        ELSE IF player_total > dealer_total THEN fh.bet + insurance
        ELSE IF player_total < dealer_total THEN -fh.bet + insurance
        ELSE insurance

\* the profit of one finished hand against the dealer's total
HandProfit(fh, dealer_total, insurance) ==
    LET player_total == hand_value(fh.cards).total
    IN  IF fh.surrendered THEN -(fh.bet \div 2) + insurance
        ELSE IF fh.bust THEN -fh.bet + insurance
        ELSE IF dealer_total > 21 THEN fh.bet + insurance
        ELSE IF player_total > dealer_total THEN fh.bet + insurance
        ELSE IF player_total < dealer_total THEN -fh.bet + insurance
        ELSE insurance

\* variant: the insurance payout enters the round's profit once
RECURSIVE SumProfit_InsuranceOnce(_, _, _)
SumProfit_InsuranceOnce(fhs, dealer_total, insurance) ==
    IF fhs = <<>> THEN insurance
    ELSE HandProfit(Head(fhs), dealer_total, 0)
         + SumProfit_InsuranceOnce(Tail(fhs), dealer_total, insurance)

RECURSIVE SumProfit(_, _, _)
SumProfit(fhs, dealer_total, insurance) ==
    IF fhs = <<>> THEN 0
    ELSE HandProfit(Head(fhs), dealer_total, insurance)
         + SumProfit(Tail(fhs), dealer_total, insurance)

RECURSIVE SumSqProfit(_, _, _)
SumSqProfit(fhs, dealer_total, insurance) ==
    IF fhs = <<>> THEN 0
    ELSE HandProfit(Head(fhs), dealer_total, insurance)
           * HandProfit(Head(fhs), dealer_total, insurance)
         + SumSqProfit(Tail(fhs), dealer_total, insurance)

Resolve ==
    /\ pc = "dealer"
    /\ ~DealerMustDraw
    /\ LET dealer_total == hand_value(dealer).total
           round_profit == SumProfit(finished_hands, dealer_total, insurance_payout)
       IN  /\ total_profit' = total_profit + round_profit
           /\ total_sq_profit' =
                total_sq_profit + SumSqProfit(finished_hands, dealer_total, insurance_payout)
           /\ tc_stats' = update_iba_stats(tc_stats, round_tc_bucket, round_profit, bet)
           /\ RoundRecorded(round_profit)
    /\ UNCHANGED <<fixed_vars, driver_vars, cancel_flag, shoe_vars, total_initial_bet, is_wonged_out,
                   was_cancelled, result>>

(***************************************************************************)
(* run_simulation: after the loop.                                         *)
(***************************************************************************)
BoolStr(b) == IF b THEN "true" ELSE "false"

ReturnFrame ==
    UNCHANGED <<fixed_vars, driver_vars, cancel_flag, shoe_vars, total_vars, wong_vars, was_cancelled,
                round_vars>>

\* rounds_played == 0: the all-zeros result
ReturnNoHands ==
    /\ pc = "final"
    /\ rounds_played = 0
    /\ progress' = Append(progress, ProgressCall)
    /\ result' = <<[rounds_played |-> 0, ev_per_100 |-> RatZero, variance_per_hand |-> RatZero,
                    avg_initial_bet |-> RatZero, tc_table |-> <<>>,
                    meta |-> [note |-> "no hands played"]]>>
    /\ pc' = "done"
    /\ ReturnFrame

\* avg_initial_bet / request.unit_size raises ZeroDivisionError
ReturnRaises ==
    /\ pc = "final"
    /\ rounds_played > 0
    /\ request.unit_size = 0
    /\ progress' = Append(progress, ProgressCall)
    /\ pc' = "raised"
    /\ UNCHANGED result
    /\ ReturnFrame

RatMax0(r) == IF r.num < 0 THEN RatZero ELSE r

ReturnResult ==
    /\ pc = "final"
    /\ rounds_played > 0
    /\ request.unit_size # 0
    /\ progress' = Append(progress, ProgressCall)
    /\ LET mean == Rat(total_profit, rounds_played)
           variance == RatMax0(RatSub(Rat(total_sq_profit, rounds_played), RatMul(mean, mean)))
       IN  result' = <<[rounds_played |-> rounds_played,
                        ev_per_100 |-> RatMul(mean, Rat(100, 1)),
                        variance_per_hand |-> variance,
                        avg_initial_bet |-> Rat(total_initial_bet, rounds_played),
                        tc_table |-> tc_stats,
                        meta |-> [rounds_played |-> ToString(rounds_played),
                                  note |-> IF was_cancelled THEN "cancelled"
                                           ELSE "single-process sim",
                                  was_cancelled |-> BoolStr(was_cancelled)]]>>
    /\ pc' = "done"
    /\ ReturnFrame

(***************************************************************************)
(* run_simulation_parallel: the chunked driver.  The thresholds of the     *)
(* code (100_000 hands, 50_000 hands per chunk, 32 to 256 chunks) are      *)
(* scaled down; a chunk's summary is the nondeterministic outcome of its   *)
(* worker, and idx names the future it came from.                          *)
(***************************************************************************)
ParMinHands == 2

TargetChunkSize == 1

MinChunks == 2

MaxChunks == 3

num_chunks(hands) == Min(Max(MinChunks, hands \div TargetChunkSize), MaxChunks)

\* variant: the remainder is not handed out
chunk_hands_NoRemainder(hands, i) == hands \div num_chunks(hands)

\* chunk_hands of chunk i (1-based here, 0-based in the code)
chunk_hands(hands, i) ==
    LET base_chunk_size == hands \div num_chunks(hands)
        remainder == hands % num_chunks(hands)
    IN  base_chunk_size + (IF i - 1 < remainder THEN 1 ELSE 0)

\* request.seed + i * 1_000_000_007 for chunk i (1-based here), as the pair
\* <<multiples of 10^9, rest>>: 1_000_000_007 = SeedStrideHigh + SeedStrideLow
SeedStrideHigh == 1000000000

SeedStrideLow == 7

chunk_seed(seed, i) ==
    [hi |-> (i - 1) + (seed + SeedStrideLow * (i - 1)) \div SeedStrideHigh,
     lo |-> (seed + SeedStrideLow * (i - 1)) % SeedStrideHigh]

\* chunk_args without the request: (chunk_hands, chunk_seed) of every chunk
chunk_args(hands, seed) ==
    [i \in 1..num_chunks(hands) |->
        [chunk_hands |-> chunk_hands(hands, i), chunk_seed |-> chunk_seed(seed, i)]]

\* the summaries a worker may return for a chunk of h hands: h flat one-unit
\* rounds, all won or all lost
ChunkOutcomes(req, h) ==
    {[hands |-> h, profit_sum |-> s * 2 * h * req.unit_size,
      profit_sq_sum |-> 4 * h * req.unit_size * req.unit_size,
      bet_sum |-> 2 * h * req.unit_size,
      tc_histogram |-> (0 :> h), tc_histogram_est |-> (0 :> h),
      tc_stats |-> (0 :> [n_total |-> h, n_iba |-> IF req.unit_size > 0 THEN h ELSE 0,
                          n_zero |-> 0,
                          mean |-> IF req.unit_size > 0 THEN Rat(s, 1) ELSE RatZero,
                          m2 |-> RatZero])] : s \in {-1, 1}}

RECURSIVE SumField(_, _)
SumField(cs, f) == IF cs = <<>> THEN 0 ELSE Head(cs)[f] + SumField(Tail(cs), f)

ChunkIds(cs) == {cs[k].idx : k \in 1..Len(cs)}

Done(f) == f.state \in {"ok", "failed", "cancelled"}

RunningCount == Cardinality({i \in DOMAIN futures : futures[i].state = "running"})

\* run_simulation(request, progress_cb, cancel_check) is entered
CallRunSimulation ==
    /\ pc' = "loop"
    /\ par_pc' = "engine"
    /\ UNCHANGED <<fixed_vars, futures, chunks, completed, cancel_flag, shoe_vars, total_vars,
                   wong_vars, was_cancelled, round_vars, progress, result>>

GoesParallel == request.hands >= ParMinHands /\ num_workers > 1 /\ ~cancel_flag

\* small request, single worker, or cancelled before the start
Delegate ==
    /\ par_pc = "call"
    /\ ~GoesParallel
    /\ CallRunSimulation

DriverFrame == UNCHANGED <<fixed_vars, cancel_flag, engine_vars>>

Submit ==
    /\ par_pc = "call"
    /\ GoesParallel
    /\ futures' = [i \in 1..num_chunks(request.hands) |->
                     [state |-> "pending", chunk |-> <<>>, yielded |-> FALSE,
                      args |-> chunk_args(request.hands, request.seed)[i]]]
    /\ par_pc' = "as_completed"
    /\ UNCHANGED <<chunks, completed, progress, result>>
    /\ DriverFrame

\* the pool cannot be created or fed: the outer except
PoolRaises ==
    /\ par_pc = "call"
    /\ GoesParallel
    /\ CallRunSimulation

WorkerFrame ==
    /\ UNCHANGED <<par_pc, chunks, completed, progress, result>>
    /\ DriverFrame

\* a free worker process takes a pending chunk
WorkerStarts ==
    /\ par_pc \in {"as_completed", "shutdown"}
    /\ RunningCount < num_workers
    /\ \E i \in DOMAIN futures :
         /\ futures[i].state = "pending"
         /\ futures' = [futures EXCEPT ![i].state = "running"]
    /\ WorkerFrame

\* _run_chunk_worker returns its SimulationChunk
WorkerReturns ==
    /\ \E i \in DOMAIN futures :
         /\ futures[i].state = "running"
         /\ \E c \in ChunkOutcomes(request, futures[i].args.chunk_hands) :
              futures' = [futures EXCEPT ![i].state = "ok",
                                         ![i].chunk = <<[idx |-> i] @@ c>>]
    /\ WorkerFrame

\* _run_chunk_worker raises, or its process dies
WorkerRaises ==
    /\ \E i \in DOMAIN futures :
         /\ futures[i].state = "running"
         /\ futures' = [futures EXCEPT ![i].state = "failed"]
    /\ WorkerFrame

\* as_completed hands the loop a future that is done and not yet seen
Yielded(i) ==
    /\ par_pc = "as_completed"
    /\ i \in DOMAIN futures
    /\ Done(futures[i])
    /\ ~futures[i].yielded

\* cancel_check() is true: f.cancel() on every future, then break
YieldCancel(i) ==
    /\ Yielded(i)
    /\ cancel_flag
    /\ futures' = [k \in DOMAIN futures |->
                     IF futures[k].state = "pending"
                     THEN [futures[k] EXCEPT !.state = "cancelled"]
                     ELSE IF k = i THEN [futures[k] EXCEPT !.yielded = TRUE]
                     ELSE futures[k]]
    /\ par_pc' = "shutdown"
    /\ UNCHANGED <<chunks, completed, progress, result>>
    /\ DriverFrame

\* variant: progress reports the hands of the chunk just consumed
YieldResult_ChunkOnly(i) ==
    /\ Yielded(i)
    /\ ~cancel_flag
    /\ futures[i].state = "ok"
    /\ LET chunk == futures[i].chunk[1]
           now == [hands |-> completed.hands + chunk.hands,
                   profit |-> completed.profit + chunk.profit_sum,
                   sq_profit |-> completed.sq_profit + chunk.profit_sq_sum,
                   bet |-> completed.bet + chunk.bet_sum]
       IN  /\ chunks' = Append(chunks, chunk)
           /\ completed' = now
           /\ progress' = Append(progress,
                                 [done |-> chunk.hands, total |-> request.hands,
                                  profit_sum |-> now.profit, profit_sq_sum |-> now.sq_profit,
                                  bet_sum |-> now.bet])
    /\ futures' = [futures EXCEPT ![i].yielded = TRUE]
    /\ UNCHANGED <<par_pc, result>>
    /\ DriverFrame

\* future.result() returns the chunk
YieldResult(i) ==
    /\ Yielded(i)
    /\ ~cancel_flag
    /\ futures[i].state = "ok"
    /\ LET chunk == futures[i].chunk[1]
           now == [hands |-> completed.hands + chunk.hands,
                   profit |-> completed.profit + chunk.profit_sum,
                   sq_profit |-> completed.sq_profit + chunk.profit_sq_sum,
                   bet |-> completed.bet + chunk.bet_sum]
       IN  /\ chunks' = Append(chunks, chunk)
           /\ completed' = now
           /\ progress' = Append(progress,
                                 [done |-> now.hands, total |-> request.hands,
                                  profit_sum |-> now.profit, profit_sq_sum |-> now.sq_profit,
                                  bet_sum |-> now.bet])
    /\ futures' = [futures EXCEPT ![i].yielded = TRUE]
    /\ UNCHANGED <<par_pc, result>>
    /\ DriverFrame

\* variant: a failed chunk is collected as an empty chunk
YieldFailure_Kept(i) ==
    /\ Yielded(i)
    /\ ~cancel_flag
    /\ futures[i].state = "failed"
    /\ futures' = [futures EXCEPT ![i].yielded = TRUE]
    /\ chunks' = Append(chunks, [idx |-> i, hands |-> 0, profit_sum |-> 0,
                                 profit_sq_sum |-> 0, bet_sum |-> 0, tc_histogram |-> <<>>,
                                 tc_histogram_est |-> <<>>, tc_stats |-> <<>>])
    /\ UNCHANGED <<par_pc, completed, progress, result>>
    /\ DriverFrame

\* future.result() raises: "Chunk failed" is printed and the loop goes on
YieldFailure(i) ==
    /\ Yielded(i)
    /\ ~cancel_flag
    /\ futures[i].state = "failed"
    /\ futures' = [futures EXCEPT ![i].yielded = TRUE]
    /\ UNCHANGED <<par_pc, chunks, completed, progress, result>>
    /\ DriverFrame

AsCompleted == \E i \in DOMAIN futures : YieldCancel(i) \/ YieldResult(i) \/ YieldFailure(i)

\* every future has been seen
LoopEnds ==
    /\ par_pc = "as_completed"
    /\ \A i \in DOMAIN futures : futures[i].yielded
    /\ par_pc' = "shutdown"
    /\ UNCHANGED <<futures, chunks, completed, progress, result>>
    /\ DriverFrame

\* leaving the with block waits for the chunks still running
PoolClosed ==
    /\ par_pc = "shutdown"
    /\ \A i \in DOMAIN futures : Done(futures[i])

(***************************************************************************)
(* aggregate_chunks.  Its sums are float sums taken in the order of the    *)
(* list; arith says how a float operation is computed: "exact" returns the *)
(* real result, "float" rounds it to FloatBits significant bits (53 in the *)
(* doubles of the code).                                                   *)
(***************************************************************************)
FloatBits == 2

RECURSIVE Pow2(_)
Pow2(k) == IF k = 0 THEN 1 ELSE 2 * Pow2(k - 1)

\* a / d >= 0 rounded to FloatBits significant bits, ties to even
RECURSIVE FlRound(_, _)
FlRound(a, d) ==
    IF a = 0 THEN RatZero
    ELSE IF a >= d * Pow2(FloatBits) THEN RatMul(Rat(2, 1), FlRound(a, 2 * d))
    ELSE IF a < d * Pow2(FloatBits - 1) THEN RatDivInt(FlRound(2 * a, d), 2)
    ELSE Rat(RoundHalfEven(a, d), 1)

Fl(r) == IF r.num < 0 THEN RatSub(RatZero, FlRound(-r.num, r.den)) ELSE FlRound(r.num, r.den)

\* the result of one float operation whose real result is r
Round(arith, r) == IF arith = "exact" THEN r ELSE Fl(r)

\* sum(c.f for c in chunks): 0 + c1.f + c2.f + ...
RECURSIVE SumFloat(_, _, _)
SumFloat(cs, f, arith) ==
    IF cs = <<>> THEN RatZero
    ELSE Round(arith, RatAdd(SumFloat(SubSeq(cs, 1, Len(cs) - 1), f, arith),
                             Rat(cs[Len(cs)][f], 1)))

\* the keys of one of the dicts of the chunks
ChunkKeys(cs, f) == UNION {DOMAIN cs[k][f] : k \in 1..Len(cs)}

\* variant: a chunk's count replaces the count merged so far
MergeCount_LastWins(cs, f, tc) ==
    LET ks == {k \in 1..Len(cs) : tc \in DOMAIN cs[k][f]}
    IN  IF ks = {} THEN 0 ELSE cs[CHOOSE k \in ks : \A j \in ks : j <= k][f][tc]

\* tc_histogram[tc] (or tc_histogram_est[tc]) after the merge loop
RECURSIVE MergeCount(_, _, _)
MergeCount(cs, f, tc) ==
    IF cs = <<>> THEN 0
    ELSE MergeCount(Tail(cs), f, tc) + (IF tc \in DOMAIN Head(cs)[f] THEN Head(cs)[f][tc] ELSE 0)

MergeHistogram(cs, f) == [tc \in ChunkKeys(cs, f) |-> MergeCount(cs, f, tc)]

ZeroMerged ==
    [n_total |-> 0, n_iba |-> 0, n_zero |-> 0, mean |-> RatZero, m2 |-> RatZero,
     sum |-> RatZero, sum_sq |-> RatZero]

\* variant: the chunk's m2 alone is added to sum_sq, without n_iba * mean ** 2
MergeStat_NoMeanTerm(m, stat, arith) ==
    LET counted == [m EXCEPT !.n_total = @ + stat.n_total, !.n_iba = @ + stat.n_iba,
                             !.n_zero = @ + stat.n_zero]
    IN  IF stat.n_iba > 0
        THEN [counted EXCEPT
                !.sum = Round(arith, RatAdd(@, Round(arith, RatMul(stat.mean,
                                                                   Rat(stat.n_iba, 1))))),
                !.sum_sq = Round(arith, RatAdd(@, stat.m2))]
        ELSE counted

\* merged_tc_stats[tc] after the stat of one more chunk
MergeStat(m, stat, arith) ==
    LET counted == [m EXCEPT !.n_total = @ + stat.n_total, !.n_iba = @ + stat.n_iba,
                             !.n_zero = @ + stat.n_zero]
    IN  IF stat.n_iba > 0
        THEN [counted EXCEPT
                !.sum = Round(arith, RatAdd(@, Round(arith, RatMul(stat.mean,
                                                                   Rat(stat.n_iba, 1))))),
                !.sum_sq = Round(arith, RatAdd(@,
                             Round(arith, RatAdd(stat.m2,
                               Round(arith, RatMul(Rat(stat.n_iba, 1),
                                 Round(arith, RatMul(stat.mean, stat.mean))))))))]
        ELSE counted

\* merged_tc_stats[tc] after the loop over the chunks, in list order
RECURSIVE MergeBucket(_, _, _)
MergeBucket(cs, tc, arith) ==
    IF cs = <<>> THEN ZeroMerged
    ELSE IF tc \in DOMAIN cs[Len(cs)].tc_stats
         THEN MergeStat(MergeBucket(SubSeq(cs, 1, Len(cs) - 1), tc, arith),
                        cs[Len(cs)].tc_stats[tc], arith)
         ELSE MergeBucket(SubSeq(cs, 1, Len(cs) - 1), tc, arith)

\* "Finalize merged TC stats"
FinalizeStat(stat, arith) ==
    IF stat.n_iba > 0
    THEN LET mean == Round(arith, RatDivInt(stat.sum, stat.n_iba))
         IN  [stat EXCEPT
                !.mean = mean,
                !.m2 = RatMax0(Round(arith, RatSub(stat.sum_sq,
                         Round(arith, RatMul(Rat(stat.n_iba, 1),
                           Round(arith, RatMul(mean, mean)))))))]
    ELSE stat

merged_tc_stats(cs, arith) ==
    [tc \in ChunkKeys(cs, "tc_stats") |-> FinalizeStat(MergeBucket(cs, tc, arith), arith)]

\* the rows of tc_table: the buckets with n_total > 0, by n, n_iba, n_zero and the
\* mean and m2 that ev_pct, variance and ev_se_pct are computed from
TcTable(merged) ==
    [tc \in {b \in DOMAIN merged : merged[b].n_total > 0} |->
        [n |-> merged[tc].n_total, n_iba |-> merged[tc].n_iba, n_zero |-> merged[tc].n_zero,
         mean |-> merged[tc].mean, m2 |-> merged[tc].m2]]

aggregate_chunks(cs, req, arith) ==
    LET total_hands == SumField(cs, "hands")
    IN  IF total_hands = 0
        THEN [rounds_played |-> 0, ev_per_100 |-> RatZero, variance_per_hand |-> RatZero,
              avg_initial_bet |-> RatZero, tc_histogram |-> <<>>, tc_histogram_est |-> <<>>,
              tc_table |-> <<>>, meta |-> [note |-> "no hands played"]]
        ELSE LET mean == Round(arith, RatDivInt(SumFloat(cs, "profit_sum", arith),
                                                total_hands))
                 variance ==
                     RatMax0(Round(arith,
                       RatSub(Round(arith, RatDivInt(SumFloat(cs, "profit_sq_sum", arith),
                                                     total_hands)),
                              Round(arith, RatMul(mean, mean)))))
             IN  [rounds_played |-> total_hands,
                  ev_per_100 |-> Round(arith, RatMul(mean, Rat(100, 1))),
                  variance_per_hand |-> variance,
                  avg_initial_bet |-> Round(arith, RatDivInt(SumFloat(cs, "bet_sum", arith),
                                                             total_hands)),
                  tc_histogram |-> MergeHistogram(cs, "tc_histogram"),
                  tc_histogram_est |-> MergeHistogram(cs, "tc_histogram_est"),
                  tc_table |-> TcTable(merged_tc_stats(cs, arith)),
                  meta |-> [rounds_played |-> ToString(total_hands),
                            note |-> "parallel sim (" \o ToString(Len(cs)) \o " workers)",
                            workers |-> ToString(Len(cs))]]

\* avg_initial_bet / request.unit_size raises ZeroDivisionError
AggregateRaisesOn(cs, req) == SumField(cs, "hands") > 0 /\ req.unit_size = 0

\* no chunk was collected: the whole request is run by run_simulation
FallbackEmpty ==
    /\ PoolClosed
    /\ chunks = <<>>
    /\ CallRunSimulation

\* the sums of the explored chunks are small integers: doubles hold them exactly
Aggregate ==
    /\ PoolClosed
    /\ chunks # <<>>
    /\ ~AggregateRaisesOn(chunks, request)
    /\ result' = <<aggregate_chunks(chunks, request, "exact")>>
    /\ par_pc' = "returned"
    /\ UNCHANGED <<futures, chunks, completed, progress>>
    /\ DriverFrame

AggregateRaises ==
    /\ PoolClosed
    /\ chunks # <<>>
    /\ AggregateRaisesOn(chunks, request)
    /\ par_pc' = "raised"
    /\ UNCHANGED <<futures, chunks, completed, progress, result>>
    /\ DriverFrame

(***************************************************************************)
(* The caller: InMemorySimulationRunner.stop sets the cancel flag.         *)
(***************************************************************************)
\* cancel_check() is read at the top of the engine's loop, before the pool is made
\* and each time as_completed yields: a stop() that lands anywhere else is observed
\* exactly as one landing at the next of these points.
Stop ==
    /\ ~cancel_flag
    /\ pc = "loop" \/ par_pc \in {"call", "as_completed"}
    /\ cancel_flag' = TRUE
    /\ UNCHANGED <<fixed_vars, driver_vars, engine_vars, progress, result>>

(***************************************************************************)
(* InMemorySimulationRunner: start() submits the run to its thread pool,   *)
(* status() reports on it, stop() sets its cancel flag.  The routes call   *)
(* them from one event loop, so stop() and status() of a simulation follow *)
(* the return of its start(); the pool thread runs beside them.            *)
(***************************************************************************)
\* the cap on the workers of a parallel run
MaxWorkers == 8

RunnerFrame ==
    UNCHANGED <<request, dealt_ranks, fn_args, fn_ret, futures, chunks, completed, cancel_flag,
                shoe_vars, total_vars, wong_vars, was_cancelled, round_vars, progress, result>>

\* request.use_multiprocessing is read on a request that has no such field (the
\* SimulationRequest of models.py): AttributeError, nothing is submitted
StartRaises ==
    /\ runner.pc = "start"
    /\ request.use_multiprocessing = <<>>
    /\ runner' = [runner EXCEPT !.pc = "raised"]
    /\ UNCHANGED <<pc, par_pc, num_workers>>
    /\ RunnerFrame

\* start() up to the submit: the pool thread enters run_simulation_parallel or
\* run_simulation
StartSubmit ==
    /\ runner.pc = "start"
    /\ request.use_multiprocessing # <<>>
    /\ LET parallel == request.use_multiprocessing[1] /\ request.hands >= ParMinHands
       IN  /\ par_pc' = IF parallel THEN "call" ELSE "off"
           /\ pc' = IF parallel THEN "idle" ELSE "loop"
           /\ num_workers' = IF parallel THEN Min(request.processes, MaxWorkers)
                                         ELSE num_workers
    /\ runner' = [runner EXCEPT !.pc = "submitted"]
    /\ RunnerFrame

\* the end of start(): the future is registered and _progress is set to "queued",
\* over whatever _progress_cb has written by then
StartRegister ==
    /\ runner.pc = "submitted"
    /\ runner' = [runner EXCEPT !.pc = "started", !.queued_at = Len(progress)]
    /\ UNCHANGED <<pc, par_pc, num_workers>>
    /\ RunnerFrame

\* future.done(): the submitted call has returned or raised
FutureDone ==
    \/ par_pc \in {"off", "engine"} /\ pc \in {"done", "raised"}
    \/ par_pc \in {"returned", "raised"}

\* _progress[sim_id].status: "running" once _progress_cb has been called after start()
\* wrote "queued"
ProgressStatus == IF Len(progress) > runner.queued_at THEN "running" ELSE "queued"

\* the status that status(sim_id) returns
status ==
    IF FutureDone THEN (IF cancel_flag THEN "stopped" ELSE "done") ELSE ProgressStatus

\* a call of status() that reports a state other than the last one reported
Status ==
    /\ runner.pc = "started"
    /\ status # runner.reported
    /\ runner' = [runner EXCEPT !.reported = status]
    /\ UNCHANGED <<pc, par_pc, num_workers>>
    /\ RunnerFrame

\* stop() on a simulation whose future is done
StopFinished ==
    /\ runner.pc = "started"
    /\ FutureDone
    /\ ~cancel_flag
    /\ cancel_flag' = TRUE
    /\ UNCHANGED <<fixed_vars, driver_vars, engine_vars, progress, result>>

Runner ==
    \/ StartRaises
    \/ StartSubmit
    \/ StartRegister
    \/ Status
    \/ StopFinished

(***************************************************************************)
(* The requests explored.                                                  *)
(***************************************************************************)
\* CountingSystem.tags: Hi-Lo
HiLoTags == [c \in Ranks |-> IF c \in {"2", "3", "4", "5", "6"} THEN 1
                             ELSE IF c \in {"7", "8", "9"} THEN 0 ELSE -1]

BaseRules ==
    [decks |-> 1, hit_soft_17 |-> TRUE, double_after_split |-> TRUE, double_any_two |-> TRUE,
     surrender |-> TRUE, resplit_aces |-> TRUE, max_splits |-> 1, hit_split_aces |-> FALSE,
     blackjack_payout |-> [num |-> 3, den |-> 2], penetration |-> 10]

BaseRamp ==
    [steps |-> <<[tc_floor |-> 0, units |-> 1], [tc_floor |-> 1, units |-> 2]>>,
     wong_out_below |-> <<>>, wong_out_policy |-> "anytime"]

BaseRequest ==
    [rules |-> BaseRules, tags |-> HiLoTags,
     deviations |-> <<[hand_key |-> InsuranceKey, tc_floor |-> 0, action |-> "I"]>>,
     bet_ramp |-> BaseRamp, unit_size |-> 1, hands |-> 1,
     deck_estimation_step |-> 52, deck_estimation_rounding |-> "floor",
     use_estimated_tc_for_bet |-> TRUE, use_estimated_tc_for_deviations |-> TRUE,
     seed |-> 42, processes |-> 4, use_multiprocessing |-> <<>>]

\* a deviation that doubles hard 12 against a 6 from a true count of 0 on
DoubleTwelve == [hand_key |-> HandKey(12, FALSE, "6"), tc_floor |-> 0, action |-> "D"]

\* one round, all three kinds of rank, no split: naturals, insurance, surrender,
\* doubles, soft hands
RoundRanks == {"A", "6", "T"}

RoundRequests ==
    {[BaseRequest EXCEPT !.rules.max_splits = 0, !.rules.hit_soft_17 = h17,
                         !.rules.surrender = sur] : h17 \in BOOLEAN, sur \in BOOLEAN}
    \cup {[BaseRequest EXCEPT !.rules.max_splits = 0, !.rules.double_any_two = FALSE,
                              !.use_estimated_tc_for_bet = FALSE,
                              !.use_estimated_tc_for_deviations = FALSE,
                              !.deviations = Append(@, DoubleTwelve)]}

\* one round of aces and sixes: splits under every doubling rule
SplitRanks == {"A", "6"}

SplitRequests ==
    {[BaseRequest EXCEPT !.rules.double_after_split = das, !.rules.double_any_two = da2] :
        das \in BOOLEAN, da2 \in BOOLEAN}
    \cup {[BaseRequest EXCEPT !.rules.hit_split_aces = TRUE]}
    \cup {[BaseRequest EXCEPT !.rules.max_splits = 2, !.rules.resplit_aces = rsa] :
            rsa \in BOOLEAN}

\* several rounds of sixes and tens: the loop, Wong-out, cancellation.  The deck
\* estimate is quantized to 8 decks, so floor(tc_for_bet) is -1 or 0.
LoopRanks == {"6", "T"}

LoopRequest == [BaseRequest EXCEPT !.rules.max_splits = 0, !.deck_estimation_step = 416]

PlainRequests == {[LoopRequest EXCEPT !.hands = h] : h \in {1, 2, 3}}

WongRequests ==
    {[LoopRequest EXCEPT !.hands = 2, !.bet_ramp.wong_out_below = <<w>>,
                         !.bet_ramp.wong_out_policy = p] :
        w \in {0, 1}, p \in {"anytime", "after_loss_only", "after_hand_only"}}

\* requests that validation accepts and the engine cannot finish
EdgeRequests ==
    {[LoopRequest EXCEPT !.bet_ramp.steps = <<>>],
     [LoopRequest EXCEPT !.unit_size = 0],
     [LoopRequest EXCEPT !.unit_size = -1]}

\* the smallest request the driver splits into chunks
ParRequest == [LoopRequest EXCEPT !.hands = ParMinHands]

\* what start() is given: the request of models.py, a two-round request run by
\* run_simulation, and one run by run_simulation_parallel on two workers
RunnerRequests ==
    {LoopRequest,
     [LoopRequest EXCEPT !.hands = 2, !.use_multiprocessing = <<FALSE>>],
     [ParRequest EXCEPT !.use_multiprocessing = <<TRUE>>, !.processes = 2]}

\* <<request, ranks dealt, entry point, num_workers>>
Scenarios ==
    {<<r, RoundRanks, "run_simulation", 1>> : r \in RoundRequests}
    \cup {<<r, SplitRanks, "run_simulation", 1>> : r \in SplitRequests}
    \cup {<<r, LoopRanks, "run_simulation", 1>> :
            r \in PlainRequests \cup WongRequests \cup EdgeRequests}
    \cup {<<LoopRequest, LoopRanks, "run_simulation_parallel", 2>>,
          <<ParRequest, LoopRanks, "run_simulation_parallel", 1>>,
          <<ParRequest, LoopRanks, "run_simulation_parallel", 2>>,
          <<[ParRequest EXCEPT !.unit_size = 0], LoopRanks, "run_simulation_parallel", 2>>}
    \cup {<<r, LoopRanks, "runner.start", 1>> : r \in RunnerRequests}

(***************************************************************************)
(* Specification of a run from either entry point.                         *)
(***************************************************************************)
InitRun(req, ranks, entry, workers) ==
    /\ request = req
    /\ dealt_ranks = ranks
    /\ num_workers = workers
    /\ par_pc = IF entry = "run_simulation_parallel" THEN "call" ELSE "off"
    /\ futures = <<>>
    /\ chunks = <<>>
    /\ completed = [hands |-> 0, profit |-> 0, sq_profit |-> 0, bet |-> 0]
    /\ cancel_flag = FALSE
    /\ pc = IF entry = "run_simulation" THEN "loop" ELSE "idle"
    /\ shoe = build_shoe(req.rules.decks)
    /\ cut_card = CutCard(req.rules)
    /\ pointer = 0
    /\ running_count = 0
    /\ total_profit = 0
    /\ total_sq_profit = 0
    /\ total_initial_bet = 0
    /\ rounds_played = 0
    /\ tc_stats = <<>>
    /\ last_round_result = "None"
    /\ last_round_played = FALSE
    /\ is_wonged_out = FALSE
    /\ was_cancelled = FALSE
    /\ round_tc_bucket = 0
    /\ bet = 0
    /\ tc_for_dev = [num |-> 0, den |-> 1]
    /\ player_start = <<>>
    /\ dealer = <<>>
    /\ insurance_payout = 0
    /\ queue = <<>>
    /\ hand = <<>>
    /\ finished_hands = <<>>
    /\ progress = <<>>
    /\ result = <<>>
    /\ runner = [pc |-> IF entry = "runner.start" THEN "start" ELSE "off",
                 queued_at |-> 0, reported |-> "None"]

Init ==
    /\ \E sc \in Scenarios : InitRun(sc[1], sc[2], sc[3], sc[4])
    /\ fn_args = <<>>
    /\ fn_ret = <<>>

Engine ==
    \/ LoopExit
    \/ CancelBreak
    \/ WongOutSkip
    \/ PlaceBet
    \/ PlaceBetRaises
    \/ DealCard
    \/ NaturalResolve
    \/ StartPlay
    \/ PopHand
    \/ PlayerDone
    \/ Split
    \/ Surrender
    \/ Stand
    \/ Double
    \/ SplitAcesStop
    \/ Hit
    \/ DealerDraw
    \/ Resolve
    \/ ReturnNoHands
    \/ ReturnRaises
    \/ ReturnResult

Driver ==
    \/ Delegate
    \/ Submit
    \/ PoolRaises
    \/ WorkerStarts
    \/ WorkerReturns
    \/ WorkerRaises
    \/ AsCompleted
    \/ LoopEnds
    \/ FallbackEmpty
    \/ Aggregate
    \/ AggregateRaises

Next == Engine \/ Driver \/ Stop \/ Runner

Spec == Init /\ [][Next]_vars

\* a skip whose two burn cards bring floor(tc_for_bet) back to wong_out_below
SkipRecovers ==
    /\ WongOutSkip
    /\ Floor(TcForBet(ShoeState, request))' >= request.bet_ramp.wong_out_below[1]

\* the same runs under a scheduler that lets the engine and the driver take every
\* step they can take, and under shuffles that do not withhold for ever a count the
\* shoe can reach; stop() may or may not be called
LiveSpec ==
    Init /\ [][Next]_vars /\ WF_vars(Engine) /\ WF_vars(Driver) /\ SF_vars(SkipRecovers)

(***************************************************************************)
(* Specification of the pure functions: Init draws the arguments of one    *)
(* call, the action applies the function.                                  *)
(***************************************************************************)
DevMaxLen == 2

DevKey == HandKey(16, FALSE, "T")

DevEntries == [hand_key : {DevKey, SurrenderKey(DevKey)}, tc_floor : 0..2, action : {"S", "H"}]

RECURSIVE SeqsOf(_, _)
SeqsOf(S, n) ==
    IF n = 0 THEN {<<>>}
    ELSE LET shorter == SeqsOf(S, n - 1)
         IN  shorter \cup {Append(q, x) : q \in {t \in shorter : Len(t) = n - 1}, x \in S}

\* true counts from -1/2 to 5/2 in halves
DevCounts == {Rat(n, 2) : n \in -1..5}

DevCalls ==
    {[fn |-> "apply_deviation", hand_key |-> DevKey, true_count |-> tc, deviations |-> ds] :
        tc \in DevCounts, ds \in SeqsOf(DevEntries, DevMaxLen)}

\* a worker's tc_stats after the rounds of a series in bucket b, each round of one
\* unit (2 half-units) with the profit the series names
RECURSIVE WelfordPass(_, _)
WelfordPass(series, b) ==
    IF series = <<>> THEN <<>>
    ELSE update_iba_stats(IncTotal(WelfordPass(SubSeq(series, 1, Len(series) - 1), b), b),
                          b, series[Len(series)], 2)

RECURSIVE SumSeries(_, _)
SumSeries(series, squared) ==
    IF series = <<>> THEN 0
    ELSE (IF squared THEN Head(series) * Head(series) ELSE Head(series))
         + SumSeries(Tail(series), squared)

\* the SimulationChunk a worker returns for these rounds
ChunkOf(series, b) ==
    [hands |-> Len(series), profit_sum |-> SumSeries(series, FALSE),
     profit_sq_sum |-> SumSeries(series, TRUE), bet_sum |-> 2 * Len(series),
     tc_histogram |-> IF series = <<>> THEN <<>> ELSE (b :> Len(series)),
     tc_histogram_est |-> IF series = <<>> THEN <<>> ELSE (b :> Len(series)),
     tc_stats |-> WelfordPass(series, b)]

StatOf(stats, b) == IF b \in DOMAIN stats THEN stats[b] ELSE ZeroStat

MaxSeries == 3

\* profits of a one-unit round: returns of -1, 1/2, 1 and 3/2
SeriesProfits == {-2, 1, 2, 3}

\* a series of returns cut into three chunks (empty ones included)
SeriesCalls ==
    {[fn |-> "merge_series", series |-> q, cuts |-> <<i, j>>] :
        q \in SeqsOf(SeriesProfits, MaxSeries), i \in 0..MaxSeries, j \in 0..MaxSeries}

\* the chunk summaries that are permuted: one or two rounds, in bucket 0 or 1
PermChunks ==
    {ChunkOf(<<x>>, b) : x \in {-2, 1, 2}, b \in {0, 1}}
    \cup {ChunkOf(<<x, 2>>, 0) : x \in {-2, 1, 2}}

Perms3 == {o \in [1..3 -> 1..3] : \A i, j \in 1..3 : o[i] = o[j] => i = j}

\* every number of the chunk is a float of FloatBits bits
IsFloat(c) ==
    /\ \A f \in {"profit_sum", "profit_sq_sum", "bet_sum"} : Fl(Rat(c[f], 1)) = Rat(c[f], 1)
    /\ \A b \in DOMAIN c.tc_stats :
          Fl(c.tc_stats[b].mean) = c.tc_stats[b].mean /\ Fl(c.tc_stats[b].m2) = c.tc_stats[b].m2

PermCalls ==
    {[fn |-> "aggregate_chunks", chunks |-> cs, order |-> o, arith |-> a] :
        cs \in [1..3 -> PermChunks], o \in Perms3, a \in {"exact", "float"}}

MaxParHands == 8

\* requests that the driver splits, by hands and seed; the last seed makes the low
\* part of seed + i * 1_000_000_007 carry
SplitCalls ==
    {[fn |-> "chunk_args", hands |-> h, seed |-> sd] :
        h \in ParMinHands..MaxParHands, sd \in {0, 42, SeedStrideHigh - 1}}

\* every pair, upcard and double_after_split setting
PairCalls ==
    {[fn |-> "pair_strategy_action", rank |-> r, dealer_up |-> u, double_after_split |-> das] :
        r \in Ranks, u \in Ranks, das \in BOOLEAN}

ThreeCardRanks == {"A", "2", "5", "T"}

\* every two-card hand and the three-card hands of aces, twos, fives and tens: the
\* hard totals 4 to 30 and the soft totals 12 to 21
StrategyHands ==
    {<<a, b>> : a \in Ranks, b \in Ranks}
    \cup {<<a, b, c>> : a \in ThreeCardRanks, b \in ThreeCardRanks, c \in ThreeCardRanks}

StrategyCalls ==
    {[fn |-> "basic_strategy_action", player |-> h, dealer_up |-> u, surrender |-> sur] :
        h \in StrategyHands, u \in Ranks, sur \in BOOLEAN}

MaxRemainingCards == 60

\* deck_estimation_step, in cards: negative, 0 (perfect), a quarter, a half, a deck
DeckSteps == {0 - QuarterDeck, 0, QuarterDeck, 2 * QuarterDeck, DeckCards}

DeckCalls ==
    {[fn |-> "estimate_decks", remaining_cards |-> n, step |-> st, rounding |-> rd] :
        n \in 0..MaxRemainingCards, st \in DeckSteps, rd \in {"floor", "ceil", "nearest"}}

\* the tc_floor columns of the ramps: ascending, no duplicates (BetRamp's validator)
RampFloors == {<<0>>, <<2>>, <<-1, 0>>, <<-1, 2>>, <<0, 2>>, <<-1, 0, 2>>}

\* the units columns
RampUnits == {<<1, 2, 3>>, <<3, 1, 2>>}

\* true counts: the halves from -5/2 to 7/2
MaxBetCount == 7

BetCalls ==
    {[fn |-> "choose_bet",
      true_count |-> [num |-> n, den |-> 2],
      ramp_steps |-> [i \in 1..Len(fl) |-> [tc_floor |-> fl[i], units |-> un[i]]],
      unit_size |-> us] :
        n \in -5..MaxBetCount, fl \in RampFloors, un \in RampUnits, us \in {1, 5}}

\* Rules.decks is at most 8
MaxDecks == 8

\* Rules.penetration, in percent: the ends of [0.1, 0.99] and values between
Penetrations == {10, 11, 50, 75, 98, 99}

ShoeRequest(decks, penetration) ==
    [BaseRequest EXCEPT !.rules.decks = decks, !.rules.penetration = penetration]

\* position of a rank in CARD_ORDER
RankIndex(c) == CHOOSE i \in 1..Len(CARD_ORDER) : CARD_ORDER[i] = c

\* a shoe of which the first k cards are dealt: the shuffle that leaves the shoe in
\* the order of CARD_ORDER
ShoeAt(req, k) ==
    LET full == build_shoe(req.rules.decks)
        left == [c \in Ranks |-> Max(full[c] - Max(k - full[c] * (RankIndex(c) - 1), 0), 0)]
    IN  [shoe |-> left, cut_card |-> CutCard(req.rules), pointer |-> k,
         running_count |->
            LET RECURSIVE Sum(_)
                Sum(rs) == IF rs = {} THEN 0
                           ELSE LET c == CHOOSE x \in rs : TRUE
                                IN  TagOf(req, c) * (full[c] - left[c]) + Sum(rs \ {c})
            IN  Sum(Ranks)]

\* draws from a shoe at its start, just after, just before the cut card and at it
DrawCalls ==
    {[fn |-> "draw_card", req |-> ShoeRequest(d, p), pointer |-> k, card |-> c] :
        d \in 1..MaxDecks, p \in Penetrations, k \in {0, 1}, c \in {"2", "A"}}
    \cup {[fn |-> "draw_card", req |-> ShoeRequest(d, p),
           pointer |-> CutCard(ShoeRequest(d, p).rules) - back, card |-> c] :
            d \in 1..MaxDecks, p \in Penetrations, back \in {0, 1}, c \in {"2", "A"}}

FnCalls ==
    DevCalls
    \cup DrawCalls
    \cup BetCalls
    \cup PairCalls
    \cup StrategyCalls
    \cup DeckCalls
    \cup SplitCalls
    \cup {c \in SeriesCalls : c.cuts[1] <= c.cuts[2] /\ c.cuts[2] <= Len(c.series)}
    \cup {c \in PermCalls : c.arith = "float" => \A k \in 1..3 : IsFloat(c.chunks[k])}

FnInit ==
    /\ InitRun(BaseRequest, {}, "none", 1)
    /\ fn_args \in FnCalls
    /\ fn_ret = <<>>

FnFrame ==
    UNCHANGED <<request, dealt_ranks, num_workers, fn_args, runner, driver_vars,
                cancel_flag, engine_vars, progress, result>>

\* apply_deviation(hand_key, tc, dev_index) with dev_index built as run_simulation builds it
ApplyDeviation ==
    /\ fn_ret = <<>>
    /\ fn_args.fn = "apply_deviation"
    /\ fn_ret' = <<apply_deviation(fn_args.hand_key, fn_args.true_count,
                                   DevIndex(fn_args.deviations))>>
    /\ UNCHANGED <<request, dealt_ranks, num_workers, fn_args, runner, driver_vars,
                   cancel_flag, engine_vars, progress, result>>

\* the three chunks of a cut series are merged, and the whole series goes through one
\* Welford pass
MergeSeries ==
    /\ fn_ret = <<>>
    /\ fn_args.fn = "merge_series"
    /\ LET q == fn_args.series
           cs == <<ChunkOf(SubSeq(q, 1, fn_args.cuts[1]), 0),
                   ChunkOf(SubSeq(q, fn_args.cuts[1] + 1, fn_args.cuts[2]), 0),
                   ChunkOf(SubSeq(q, fn_args.cuts[2] + 1, Len(q)), 0)>>
       IN  fn_ret' = <<[merged |-> StatOf(merged_tc_stats(cs, "exact"), 0),
                        whole |-> StatOf(WelfordPass(q, 0), 0)]>>
    /\ FnFrame

\* aggregate_chunks on a list of chunks and on the same chunks in another order
AggregatePermuted ==
    /\ fn_ret = <<>>
    /\ fn_args.fn = "aggregate_chunks"
    /\ fn_ret' = <<[listed |-> aggregate_chunks(fn_args.chunks, BaseRequest, fn_args.arith),
                    permuted |-> aggregate_chunks([k \in 1..3 |-> fn_args.chunks[fn_args.order[k]]],
                                                  BaseRequest, fn_args.arith)]>>
    /\ FnFrame

\* the chunk arguments that run_simulation_parallel prepares
ChunkArgs ==
    /\ fn_ret = <<>>
    /\ fn_args.fn = "chunk_args"
    /\ fn_ret' = <<chunk_args(fn_args.hands, fn_args.seed)>>
    /\ FnFrame

PairStrategy ==
    /\ fn_ret = <<>>
    /\ fn_args.fn = "pair_strategy_action"
    /\ fn_ret' = <<pair_strategy_action(fn_args.rank, fn_args.dealer_up,
                       [BaseRules EXCEPT !.double_after_split = fn_args.double_after_split])>>
    /\ FnFrame

\* basic_strategy_action on the same hand and upcard under H17 and under S17
BasicStrategy ==
    /\ fn_ret = <<>>
    /\ fn_args.fn = "basic_strategy_action"
    /\ fn_ret' = <<[h17 |-> basic_strategy_action(fn_args.player, fn_args.dealer_up,
                               [BaseRules EXCEPT !.surrender = fn_args.surrender,
                                                 !.hit_soft_17 = TRUE]),
                    s17 |-> basic_strategy_action(fn_args.player, fn_args.dealer_up,
                               [BaseRules EXCEPT !.surrender = fn_args.surrender,
                                                 !.hit_soft_17 = FALSE])]>>
    /\ FnFrame

EstimateDecks ==
    /\ fn_ret = <<>>
    /\ fn_args.fn = "estimate_decks"
    /\ fn_ret' = <<estimate_decks(fn_args.remaining_cards, fn_args.step, fn_args.rounding)>>
    /\ FnFrame

ChooseBet ==
    /\ fn_ret = <<>>
    /\ fn_args.fn = "choose_bet"
    /\ fn_ret' = <<choose_bet(fn_args.true_count, fn_args.ramp_steps, fn_args.unit_size)>>
    /\ FnFrame

\* one draw_card call; the card is one the shoe holds at shoe[pointer]
DrawCard ==
    /\ fn_ret = <<>>
    /\ fn_args.fn = "draw_card"
    /\ LET ds == ShoeAt(fn_args.req, fn_args.pointer)
       IN  /\ Reshuffled(ds, fn_args.req).shoe[fn_args.card] > 0
           /\ fn_ret' = <<draw_card(ds, fn_args.req, fn_args.card)>>
    /\ FnFrame

FnNext ==
    \/ ApplyDeviation
    \/ DrawCard
    \/ ChooseBet
    \/ MergeSeries
    \/ AggregatePermuted
    \/ ChunkArgs
    \/ PairStrategy
    \/ BasicStrategy
    \/ EstimateDecks

FnSpec == FnInit /\ [][FnNext]_vars


(***************************************************************************)
(* Properties.                                                             *)
(***************************************************************************)
RECURSIVE SumStat(_, _, _)
SumStat(stats, buckets, f) ==
    IF buckets = {} THEN 0
    ELSE LET b == CHOOSE x \in buckets : TRUE
         IN  stats[b][f] + SumStat(stats, buckets \ {b}, f)

\* the sum of one counter over the buckets of the returned tc_table
TableSum(f) == SumStat(result[1].tc_table, DOMAIN result[1].tc_table, f)

\* run_simulation has returned a result
Returned == pc = "done" /\ result # <<>>

\* no counter of the returned table has reached the point where x + 1.0 = x
CountersExact ==
    \A b \in DOMAIN result[1].tc_table :
        /\ result[1].tc_table[b].n_total < FloatExactMax
        /\ result[1].tc_table[b].n_zero < FloatExactMax
        /\ result[1].tc_table[b].n_iba < FloatExactMax

\* C1 (as stated): a run_simulation call on a validated request that is never
\* cancelled terminates having played exactly request.hands rounds.  Requests on
\* which the engine raises are set aside here (they are C10's), so that what is
\* left to refute is termination itself.
C1_Terminates ==
    (par_pc = "off" /\ pc = "loop") =>
        <>(cancel_flag \/ pc = "raised" \/ (pc = "done" /\ rounds_played = request.hands))

DevOfKey == {i \in 1..Len(fn_args.deviations) : fn_args.deviations[i].hand_key = fn_args.hand_key}

\* C4 (as stated): when the hand key has an entry at tc_floor F and one at a higher
\* tc_floor G, and G is the highest tc_floor of the key that floor(tc) reaches,
\* apply_deviation returns the action of the entry at G.
C4_RightStepped ==
    (fn_ret # <<>> /\ fn_args.fn = "apply_deviation") =>
        \A i, j \in DevOfKey :
            LET F == fn_args.deviations[i].tc_floor
                G == fn_args.deviations[j].tc_floor
            IN  (F < G /\ Floor(fn_args.true_count) >= G) =>
                    fn_ret[1] = fn_args.deviations[j].action

\* C5 (as stated): with hit_split_aces false, a hand created by splitting aces is
\* finalized holding exactly two cards, whatever double_after_split and
\* double_any_two are.
C5_SplitAcesTwoCards ==
    [][(Playing /\ hand[1].is_split_aces /\ ~request.rules.hit_split_aces
            /\ Len(finished_hands') = Len(finished_hands) + 1)
        => Len(finished_hands'[Len(finished_hands')].cards) = 2]_vars

\* C6 (as stated): a run that ended because of cancellation returns a result whose
\* meta carries was_cancelled = "true", also when no round was played.
C6_CancelledIsFlagged ==
    (Returned /\ was_cancelled) =>
        /\ "was_cancelled" \in DOMAIN result[1].meta
        /\ result[1].meta.was_cancelled = "true"

\* C7 (as stated): once cancel_check returns true, a running run_simulation
\* eventually stops.
C7_CancelStops == (cancel_flag /\ pc # "idle") ~> (pc \in {"done", "raised"})

\* C8 (as stated): when the driver observes the cancellation, every chunk whose worker
\* has completed by then is among the chunks that are aggregated.
C8_CompletedAggregated ==
    [][(\E i \in DOMAIN futures : YieldCancel(i))
        => \A k \in DOMAIN futures : futures[k].state = "ok" => k \in ChunkIds(chunks')]_vars

AllFailed == futures # <<>> /\ \A i \in DOMAIN futures : futures[i].state = "failed"

\* C9: in a parallel run that is not cancelled, the result aggregates exactly the
\* chunks whose worker succeeded, the failed ones being dropped; and when every chunk
\* has failed the driver never aggregates but enters run_simulation on the request.
C9_FailedChunksDropped ==
    /\ (par_pc = "returned" /\ ~cancel_flag) =>
          /\ ChunkIds(chunks) = {i \in DOMAIN futures : futures[i].state = "ok"}
          /\ result[1].rounds_played = SumField(chunks, "hands")
          /\ result[1].meta.workers = ToString(Len(chunks))
    /\ (AllFailed /\ par_pc \notin {"as_completed", "shutdown"}) =>
          par_pc = "engine" /\ pc # "idle"

\* a returned parallel result with one failed and one aggregated chunk
C9_Witness ==
    /\ par_pc = "returned" /\ ~cancel_flag
    /\ \E i, j \in DOMAIN futures : futures[i].state = "failed" /\ futures[j].state = "ok"

\* C10 (as stated): the engine raises no exception on a validated request.
C10_NoException == pc # "raised"

\* the place of a status on the path queued -> running -> {done, stopped}
StatusRank(s) ==
    CASE s = "None" -> 0 [] s = "queued" -> 1 [] s = "running" -> 2
      [] s \in {"done", "stopped"} -> 3

C13_MergeIsWelford ==
    (fn_ret # <<>> /\ fn_args.fn = "merge_series") =>
        /\ fn_ret[1].merged.n_iba = fn_ret[1].whole.n_iba
        /\ fn_ret[1].merged.mean = fn_ret[1].whole.mean
        /\ fn_ret[1].merged.m2 = fn_ret[1].whole.m2

\* three returns, not all equal, merged from three chunks of one return each
C13_Witness ==
    /\ fn_ret # <<>> /\ fn_args.fn = "merge_series"
    /\ Len(fn_args.series) = 3 /\ fn_args.cuts = <<1, 2>>
    /\ fn_ret[1].merged.n_iba = 3
    /\ fn_ret[1].merged.m2.num > 0
    /\ fn_ret[1].merged.mean.num # 0

\* C14: in exact arithmetic aggregate_chunks returns the same hands, profit and bet
\* statistics, histograms and per-bucket statistics for any permutation of the same
\* list of chunk summaries.
C14_OrderInvariant ==
    (fn_ret # <<>> /\ fn_args.fn = "aggregate_chunks" /\ fn_args.arith = "exact") =>
        fn_ret[1].listed = fn_ret[1].permuted

\* three different chunks over two buckets, aggregated in two different orders
C14_Witness ==
    /\ fn_ret # <<>> /\ fn_args.fn = "aggregate_chunks" /\ fn_args.arith = "exact"
    /\ fn_args.order = <<3, 1, 2>>
    /\ Cardinality({fn_args.chunks[k] : k \in 1..3}) = 3
    /\ DOMAIN fn_ret[1].listed.tc_table = {0, 1}
    /\ fn_ret[1].listed.tc_table[0].m2.num > 0

\* C12 (as stated, its last part): the result of a parallel run does not depend on
\* the order in which the chunks complete, that is, on the order in which the driver
\* has appended them to the list that aggregate_chunks is given.
C12_AnyOrderSameResult ==
    (fn_ret # <<>> /\ fn_args.fn = "aggregate_chunks") => fn_ret[1].listed = fn_ret[1].permuted

RECURSIVE SumChunkHands(_)
SumChunkHands(args) ==
    IF args = <<>> THEN 0 ELSE Head(args).chunk_hands + SumChunkHands(Tail(args))

\* C15: a request that the driver splits is cut into min(max(MinChunks, hands //
\* TargetChunkSize), MaxChunks) chunks (32, 50000 and 256 in the code), chunk i
\* (0-based) having hands // num_chunks hands plus one if i < hands mod num_chunks, so
\* that the sizes sum to hands; chunk 0 has the seed of the request, each next chunk
\* the seed of the one before plus 1000000007, and the seeds are pairwise distinct.
C15_PartitionAndSeeds ==
    (fn_ret # <<>> /\ fn_args.fn = "chunk_args") =>
        LET args == fn_ret[1]
            n == Len(args)
        IN  /\ n = Min(Max(MinChunks, fn_args.hands \div TargetChunkSize), MaxChunks)
            /\ \A i \in 1..n :
                  args[i].chunk_hands =
                      fn_args.hands \div n + (IF i - 1 < fn_args.hands % n THEN 1 ELSE 0)
            /\ SumChunkHands(args) = fn_args.hands
            /\ args[1].chunk_seed = [hi |-> fn_args.seed \div SeedStrideHigh,
                                     lo |-> fn_args.seed % SeedStrideHigh]
            /\ \A i \in 1..(n - 1) :
                  (args[i + 1].chunk_seed.hi - args[i].chunk_seed.hi - 1) * SeedStrideHigh
                      + (args[i + 1].chunk_seed.lo - args[i].chunk_seed.lo) = SeedStrideLow
            /\ \A i, j \in 1..n : args[i].chunk_seed = args[j].chunk_seed => i = j

\* three chunks of unequal sizes, the low part of the seeds carrying
C15_Witness ==
    /\ fn_ret # <<>> /\ fn_args.fn = "chunk_args"
    /\ Len(fn_ret[1]) = MaxChunks
    /\ fn_ret[1][1].chunk_hands > fn_ret[1][Len(fn_ret[1])].chunk_hands
    /\ fn_ret[1][2].chunk_seed.lo < fn_ret[1][1].chunk_seed.lo

\* C16: when run_simulation leaves the code after its round loop (the loop has ended,
\* by reaching the target or by cancellation), progress_cb has been called once more,
\* with the final rounds_played and totals; nothing calls it between the end of the
\* loop and that call, and nothing calls it after the engine is finished.
C16_FinalProgressOnce ==
    [][/\ (pc = "final" /\ pc' # "final") =>
             progress' = Append(progress,
                                [done |-> rounds_played, total |-> request.hands,
                                 profit_sum |-> total_profit,
                                 profit_sq_sum |-> total_sq_profit,
                                 bet_sum |-> total_initial_bet])
       /\ (pc = "final" /\ pc' = "final") => progress' = progress
       /\ pc \in {"done", "raised"} => progress' = progress]_vars

\* a finished run with winnings whose last round also made the periodic call: the
\* final call repeats it
C16_Witness ==
    /\ pc = "done"
    /\ rounds_played = request.hands
    /\ total_profit > 0
    /\ Len(progress) >= 2
    /\ progress[Len(progress)] = progress[Len(progress) - 1]
    /\ progress[Len(progress)].profit_sum = total_profit

PairCall == fn_ret # <<>> /\ fn_args.fn = "pair_strategy_action"

\* C17 (as stated): pair_strategy_action returns P for a pair of nines against a
\* dealer 7, as it does for a pair of eights against a ten, and S for a pair of tens
\* against a 6.
C17_NinesSplitVsSeven ==
    PairCall =>
        /\ (fn_args.rank = "9" /\ fn_args.dealer_up = "7") => fn_ret[1] = "P"
        /\ (fn_args.rank = "8" /\ fn_args.dealer_up = "T") => fn_ret[1] = "P"
        /\ (fn_args.rank = "T" /\ fn_args.dealer_up = "6") => fn_ret[1] = "S"

\* the cells of the pair table where the pair is split
SplitCell(rank, up, das) ==
    \/ rank \in {"A", "8"}
    \/ rank = "9" /\ up \notin {"7", "T", "J", "Q", "K", "A"}
    \/ rank = "7" /\ up \in {"2", "3", "4", "5", "6", "7"}
    \/ rank = "6" /\ up \in {"3", "4", "5", "6"}
    \/ rank = "6" /\ up = "2" /\ das
    \/ rank = "4" /\ up \in {"5", "6"} /\ das
    \/ rank \in {"2", "3"} /\ up \in {"4", "5", "6", "7"}
    \/ rank \in {"2", "3"} /\ up \in {"2", "3"} /\ das

StrategyCell(total, soft, up) ==
    /\ fn_ret # <<>> /\ fn_args.fn = "basic_strategy_action"
    /\ hand_value(fn_args.player) = [total |-> total, soft |-> soft]
    /\ upcard_key(fn_args.dealer_up) = up

\* C19: basic_strategy_action depends on hit_soft_17 in exactly three cells: soft 18
\* vs 2 is DS under H17 and S under S17, hard 11 vs A is DH under H17 and H under
\* S17, hard 9 vs 2 is DH under H17 and H under S17; for every other hand and upcard
\* the action is the same under both settings.
C19_ThreeH17Cells ==
    (fn_ret # <<>> /\ fn_args.fn = "basic_strategy_action") =>
        IF StrategyCell(18, TRUE, "2") THEN fn_ret[1] = [h17 |-> "DS", s17 |-> "S"]
        ELSE IF StrategyCell(11, FALSE, "A") \/ StrategyCell(9, FALSE, "2")
             THEN fn_ret[1] = [h17 |-> "DH", s17 |-> "H"]
        ELSE fn_ret[1].h17 = fn_ret[1].s17

\* hard 9 of three cards against a 2
C19_Witness ==
    /\ StrategyCell(9, FALSE, "2")
    /\ Len(fn_args.player) = 3
    /\ fn_ret[1] = [h17 |-> "DH", s17 |-> "H"]

\* C20: estimate_decks returns max(remaining decks, a quarter deck) when step <= 0,
\* and otherwise a multiple of step that is at least step and is the remaining decks
\* rounded down, up or to the nearest multiple (or step itself when that multiple
\* is 0); in every case the value, the divisor of the estimated true count, is
\* strictly positive.  Quantities are in cards.
C20_EstimateDecks ==
    (fn_ret # <<>> /\ fn_args.fn = "estimate_decks") =>
        LET n == fn_args.remaining_cards
            st == fn_args.step
            est == fn_ret[1]
        IN  /\ est > 0
            /\ st <= 0 => est = (IF n > QuarterDeck THEN n ELSE QuarterDeck)
            /\ st > 0 =>
                  /\ est % st = 0
                  /\ est >= st
                  /\ fn_args.rounding = "floor" =>
                        (est <= n /\ n < est + st) \/ (est = st /\ n < st)
                  /\ fn_args.rounding = "ceil" =>
                        (est >= n /\ n > est - st) \/ (est = st /\ n = 0)
                  /\ fn_args.rounding = "nearest" =>
                        (2 * (est - n) <= st /\ 2 * (n - est) <= st)
                            \/ (est = st /\ 2 * n <= st)

\* 60 cards rounded up to whole decks: two decks
C20_Witness ==
    /\ fn_ret # <<>> /\ fn_args.fn = "estimate_decks"
    /\ fn_args.remaining_cards = 60 /\ fn_args.step = DeckCards /\ fn_args.rounding = "ceil"
    /\ fn_ret[1] = 2 * DeckCards

\* the hand being played cannot double
NoDoubleHand == Playing /\ ~hand[1].can_double

\* the deviation and the basic-strategy action of the hand being played
HandDeviation ==
    LET hv == hand_value(hand[1].cards)
    IN  apply_deviation(HandKey(hv.total, hv.soft, upcard_key(dealer[1])),
                        TcForDev(ShoeState, request), dev_index(request))

HandBasic == basic_strategy_action(hand[1].cards, dealer[1], request.rules)

\* a step that finishes the hand being played with a doubled bet
DoublesBet ==
    /\ Playing
    /\ Len(finished_hands') = Len(finished_hands) + 1
    /\ LET fh == finished_hands'[Len(finished_hands')]
       IN  fh.doubled \/ fh.bet # hand[1].bet

\* C21: choose_action never returns D when can_double is false: a deviation D
\* becomes H, a basic-strategy DH becomes H and a DS becomes S; and a step that
\* doubles the bet of a hand is taken only on a hand whose can_double flag is true.
C21_NoDoubleWithoutFlag ==
    /\ [](NoDoubleHand =>
            /\ ActionFor(hand[1]) # "D"
            /\ HandDeviation = "D" => ActionFor(hand[1]) = "H"
            /\ (HandDeviation = "" /\ HandBasic = "DH") => ActionFor(hand[1]) = "H"
            /\ (HandDeviation = "" /\ HandBasic = "DS") => ActionFor(hand[1]) = "S")
    /\ [][DoublesBet => hand[1].can_double]_vars

\* a hard 12 against a 6 that cannot double and whose deviation says D: it is hit
C21_Witness ==
    /\ NoDoubleHand
    /\ HandDeviation = "D"
    /\ ActionFor(hand[1]) = "H"

\* the totals a dealer's final hand can have: 17 to 21, and a bust of up to 26
DealerTotals == 17..26

\* the round being resolved has one hand, and it was surrendered
SurrenderedRound ==
    /\ pc = "dealer"
    /\ Len(finished_hands) = 1
    /\ finished_hands[1].surrendered

\* C22: a surrendered hand resolves to -0.5 * bet plus the insurance payout against
\* every final total of the dealer, bust or not, higher or lower than the hand's;
\* and a round whose one hand was surrendered adds exactly that to total_profit.
\* Money is in half-units: twice the profit less the insurance is minus the bet.
C22_SurrenderLosesHalf ==
    /\ [](\A i \in 1..Len(finished_hands) :
            finished_hands[i].surrendered =>
                \A dealer_total \in DealerTotals :
                    2 * (HandProfit(finished_hands[i], dealer_total, insurance_payout)
                         - insurance_payout) = -finished_hands[i].bet)
    /\ [][(SurrenderedRound /\ pc' = "loop") =>
            2 * (total_profit' - total_profit - insurance_payout) = -finished_hands[1].bet]_vars

\* a surrendered 16 being resolved against a dealer who has drawn to a bust
C22_Witness ==
    /\ SurrenderedRound
    /\ hand_value(dealer).total > 21

\* two cards that total 21
Natural(cards) == Len(cards) = 2 /\ hand_value(cards).total = 21

\* the initial deal is complete and one side holds a natural
NaturalDealt == pc = "insurance" /\ (Natural(player_start) \/ Natural(dealer))

\* C23: when the player or the dealer holds a blackjack after the initial deal, the
\* two hands are the four cards of the deal, and the next step of the engine ends
\* the round (rounds_played grows by one and the loop is back at its top) without
\* drawing a card and without queueing a hand: no hit, split, double or dealer draw
\* happens before the next round starts.
C23_NaturalShortCircuits ==
    /\ [](pc = "insurance" => (Len(player_start) = 2 /\ Len(dealer) = 2))
    /\ [][(NaturalDealt /\ engine_vars' # engine_vars) =>
            /\ pc' = "loop"
            /\ rounds_played' = rounds_played + 1
            /\ UNCHANGED shoe_vars
            /\ queue' = <<>> /\ hand' = <<>> /\ finished_hands' = <<>>]_vars

\* a one-deck round won on a player's natural at 3:2: four cards drawn, round over
C23_Witness ==
    /\ pc = "loop"
    /\ rounds_played = 1
    /\ pointer = 4
    /\ total_profit = 3 /\ total_initial_bet = 2

\* the hands of the round that are still to be played
LiveHands == {queue[i] : i \in 1..Len(queue)} \cup {hand[i] : i \in 1..Len(hand)}

\* a step of the player loop that puts hands on the queue: a split
QueueGrows == pc = "player" /\ Len(queue') > Len(queue)

\* C24: every hand has split_depth <= max_splits, and a step that splits a hand
\* starts from a hand whose split_depth is below max_splits: a hand at max_splits is
\* never split, pair or not, and with max_splits = 0 no split ever happens.
C24_SplitDepthBounded ==
    /\ [](\A h \in LiveHands : h.split_depth <= request.rules.max_splits)
    /\ [][QueueGrows =>
            /\ hand # <<>>
            /\ hand[1].split_depth < request.rules.max_splits
            /\ \A i \in 1..Len(queue') :
                  queue'[i].split_depth <= request.rules.max_splits]_vars

\* with max_splits = 1, a pair of sixes dealt again to a split six against a 6, a
\* pair the strategy splits, was played as a hard 12 and stood
C24_Witness ==
    /\ request.rules.max_splits = 1
    /\ pc = "player"
    /\ upcard_key(dealer[1]) = "6"
    /\ \E i \in 1..Len(finished_hands) : finished_hands[i].cards = <<"6", "6">>

\* the steps of the call's ramp whose tc_floor is at most floor(true_count): for an
\* integer tc_floor that is tc_floor <= true_count
StepsAtOrBelow ==
    {i \in 1..Len(fn_args.ramp_steps) :
        fn_args.ramp_steps[i].tc_floor * fn_args.true_count.den <= fn_args.true_count.num}

\* C25: over a ramp sorted by ascending tc_floor, choose_bet selects the last step
\* whose tc_floor <= floor(tc), and the first step when floor(tc) is below every
\* tc_floor; the bet is that step's units times unit_size (here in half-units).
C25_LastStepAtOrBelow ==
    (fn_ret # <<>> /\ fn_args.fn = "choose_bet") =>
        LET idx == IF StepsAtOrBelow = {} THEN 1
                   ELSE CHOOSE i \in StepsAtOrBelow : \A j \in StepsAtOrBelow : j <= i
        IN  /\ ~fn_ret[1].raised
            /\ fn_ret[1].bet = 2 * fn_args.ramp_steps[idx].units * fn_args.unit_size

\* a true count of -1/2 on a ramp that starts at 0: the first step's 3 units of 5
C25_Witness ==
    /\ fn_ret # <<>> /\ fn_args.fn = "choose_bet"
    /\ StepsAtOrBelow = {}
    /\ Len(fn_args.ramp_steps) = 2
    /\ fn_args.ramp_steps[1].units = 3 /\ fn_args.unit_size = 5
    /\ fn_ret[1].bet = 30

\* the number of cards of rank c drawn since the most recent reshuffle
DrawnSince(c) == build_shoe(request.rules.decks)[c] - shoe[c]

RECURSIVE SumDrawn(_, _)
SumDrawn(ranks, weight) ==
    IF ranks = {} THEN 0
    ELSE LET c == CHOOSE x \in ranks : TRUE
         IN  weight[c] * DrawnSince(c) + SumDrawn(ranks \ {c}, weight)

\* the cards that a step takes out of the shoe
RECURSIVE Taken(_)
Taken(ranks) ==
    IF ranks = {} THEN 0
    ELSE LET c == CHOOSE x \in ranks : TRUE
         IN  (shoe[c] - shoe'[c]) + Taken(ranks \ {c})

\* C26: after any sequence of draws (deal, hit, split, double, dealer and Wong-out
\* burn draws alike) running_count is the sum of the tags of the cards drawn since
\* the most recent reshuffle and pointer is their number; a step that draws without
\* reshuffling advances the pointer by one for each card it draws.
C26_CountIsSumOfTags ==
    /\ [](/\ running_count = SumDrawn(Ranks, [c \in Ranks |-> TagOf(request, c)])
          /\ pointer = SumDrawn(Ranks, [c \in Ranks |-> 1]))
    /\ [][(shoe' # shoe /\ pointer' > pointer) => pointer' - pointer = Taken(Ranks)]_vars

\* a later round's first card, a six, drawn after a reshuffle: the count restarts
C26_Witness ==
    /\ rounds_played >= 1
    /\ pc = "deal"
    /\ pointer = 1
    /\ running_count = 1
    /\ shoe["6"] = build_shoe(request.rules.decks)["6"] - 1

DrawReturned == fn_ret # <<>> /\ fn_args.fn = "draw_card"

\* C27: draw_card reshuffles before drawing whenever pointer >= cut_card, so for
\* every decks in 1..8 and penetration in [0.1, 0.99] a draw from a shoe with
\* 0 <= pointer <= cut_card leaves 0 <= pointer <= cut_card < len(shoe), and the
\* card dealt, shoe[pointer - 1], lies before the cut card.
C27_PointerWithinCut ==
    DrawReturned =>
        LET len == DeckCards * fn_args.req.rules.decks
            cut == fn_ret[1].cut_card
        IN  /\ 0 <= fn_ret[1].pointer
            /\ fn_ret[1].pointer <= cut
            /\ cut < len
            /\ fn_ret[1].pointer - 1 < cut
            /\ 100 * cut <= len * fn_args.req.rules.penetration
            /\ len * fn_args.req.rules.penetration < 100 * (cut + 1)
            /\ fn_args.pointer >= cut => fn_ret[1].pointer = 1
            /\ fn_args.pointer < cut => fn_ret[1].pointer = fn_args.pointer + 1

\* one deck at penetration 0.99: the draw at the cut card, 51, reshuffles first
C27_Witness ==
    /\ DrawReturned
    /\ fn_args.req.rules.decks = 1 /\ fn_args.req.rules.penetration = 99
    /\ fn_args.pointer = 51
    /\ fn_ret[1].pointer = 1 /\ fn_ret[1].running_count = TagOf(fn_args.req, fn_args.card)

\* C28 (as stated): the initial deal draws in the order player[0], dealer[0],
\* player[1], dealer[1]: once two cards of the round are drawn the dealer holds his
\* upcard, and the player's second card is the third card drawn.
C28_DealerUpcardSecond ==
    (pc = "deal" /\ Len(player_start) + Len(dealer) >= 2) =>
        /\ Len(dealer) >= 1
        /\ Len(player_start) = 2 => Len(dealer) + Len(player_start) >= 3

\* a step from the top of the loop that skips the round: back at the top, two cards
\* burnt
SkipStep == pc = "loop" /\ pc' = "loop" /\ shoe' # shoe

\* a step from the top of the loop that plays the round (or raises placing the bet)
PlayStep == pc = "loop" /\ pc' \in {"deal", "raised"}

\* a step that ends a played round
RoundEnds == rounds_played' = rounds_played + 1

\* floor(tc_for_bet) at the top of the loop is below wong_out_below
BelowWongOut ==
    /\ request.bet_ramp.wong_out_below # <<>>
    /\ TcForBet(ShoeState, request).num
         < request.bet_ramp.wong_out_below[1] * TcForBet(ShoeState, request).den

\* the entry condition of the policy
PolicyEnters ==
    \/ request.bet_ramp.wong_out_policy \in {"", "anytime"}
    \/ request.bet_ramp.wong_out_policy = "after_loss_only" /\ last_round_result = "loss"
    \/ request.bet_ramp.wong_out_policy = "after_hand_only" /\ last_round_played

\* C29: is_wonged_out at the top of the loop says that the previous iteration was a
\* skip (a skip sets it, a played round starts by clearing it, nothing else changes
\* it); last_round_played says that it was a played round, and last_round_result is
\* "loss" exactly when the last played round had net profit < 0.  With
\* wong_out_below = W set, a round is skipped if and only if floor(tc_for_bet) < W
\* and either the previous iteration was a skip or the entry condition of the policy
\* holds; no round with floor(tc_for_bet) >= W is skipped.
C29_SkipIffBelowAndEntered ==
    [][/\ SkipStep => (BelowWongOut /\ (is_wonged_out \/ PolicyEnters))
       /\ PlayStep => ~(BelowWongOut /\ (is_wonged_out \/ PolicyEnters))
       /\ SkipStep => (is_wonged_out' /\ ~last_round_played'
                       /\ last_round_result' = last_round_result)
       /\ PlayStep => (~is_wonged_out' /\ UNCHANGED <<last_round_played, last_round_result>>)
       /\ RoundEnds => (last_round_played' /\ UNCHANGED is_wonged_out
                        /\ (last_round_result' = "loss" <=> total_profit' < total_profit))
       /\ ~(SkipStep \/ PlayStep \/ RoundEnds) => UNCHANGED wong_vars]_vars

\* after_loss_only: the first round was lost and the second, below W, was skipped
C29_Witness ==
    /\ request.bet_ramp.wong_out_policy = "after_loss_only"
    /\ rounds_played = 1
    /\ last_round_result = "loss"
    /\ is_wonged_out /\ ~last_round_played
    /\ pc = "loop"

\* the statistics of bucket b before the step (a bucket is created as zeros)
StatBefore(b) == IF b \in DOMAIN tc_stats THEN tc_stats[b] ELSE ZeroStat

\* C30: a Wong-out skip increments n_zero of the round's bucket (a float counter:
\* below the point where x + 1.0 = x), draws exactly two cards, clears
\* last_round_played, and leaves rounds_played, total_profit, total_sq_profit,
\* total_initial_bet and every bucket's n_iba, mean and m2 unchanged.
C30_SkipFrame ==
    [][SkipStep =>
        LET f == Floor(TcForBet(ShoeState, request))
        IN  /\ DOMAIN tc_stats' = DOMAIN tc_stats \cup {f}
            /\ StatBefore(f).n_zero < FloatExactMax =>
                  tc_stats'[f].n_zero = StatBefore(f).n_zero + 1
            /\ \A b \in DOMAIN tc_stats' :
                  /\ tc_stats'[b].n_iba = StatBefore(b).n_iba
                  /\ tc_stats'[b].mean = StatBefore(b).mean
                  /\ tc_stats'[b].m2 = StatBefore(b).m2
                  /\ b # f => tc_stats'[b].n_zero = StatBefore(b).n_zero
            /\ IF pointer + 2 <= cut_card THEN pointer' = pointer + 2 /\ Taken(Ranks) = 2
               ELSE IF pointer >= cut_card THEN pointer' = 2
               ELSE pointer' = 1
            /\ ~last_round_played'
            /\ UNCHANGED <<rounds_played, total_profit, total_sq_profit, total_initial_bet>>]_vars

\* the first round of a run was skipped: one n_zero, two cards burnt, nothing played
C30_Witness ==
    /\ pc = "loop"
    /\ rounds_played = 0 /\ total_initial_bet = 0
    /\ pointer = 2
    /\ ~last_round_played
    /\ \E b \in DOMAIN tc_stats : tc_stats[b].n_zero = 1 /\ tc_stats[b].n_iba = 0

\* the step that resolves the hands of a round against the dealer
ResolveStep == pc = "dealer" /\ pc' = "loop"

\* the profit of the first k finished hands of the round, insurance left out
RECURSIVE PlayProfit(_)
PlayProfit(k) ==
    IF k = 0 THEN 0
    ELSE HandProfit(finished_hands[k], hand_value(dealer).total, 0) + PlayProfit(k - 1)

\* C31: in a round where insurance was taken and the player's hand was split into
\* k finished hands, the full insurance payout is added to the profit of each of
\* the k hands: the round adds to total_profit the k profits of the play plus k
\* times the insurance payout.
C31_InsurancePerHand ==
    [][ResolveStep =>
        total_profit' - total_profit =
            PlayProfit(Len(finished_hands)) + Len(finished_hands) * insurance_payout]_vars

\* a pair split against a dealer ace that has no blackjack: two hands to resolve
\* and a lost insurance bet
C31_Witness ==
    /\ pc = "dealer" /\ ~DealerMustDraw
    /\ Len(finished_hands) = 2
    /\ insurance_payout < 0

\* a step in which the dealer draws a card
DealerDraws == pc = "dealer" /\ pc' = "dealer" /\ dealer' # dealer

\* the dealer's hand is below 17, or a soft 17 under H17
BelowStand ==
    \/ hand_value(dealer).total < 17
    \/ hand_value(dealer).total = 17 /\ hand_value(dealer).soft /\ request.rules.hit_soft_17

\* C32: in every round without a natural the dealer draws exactly while the total
\* is below 17, or is a soft 17 with hit_soft_17 enabled: each draw adds one card to
\* such a hand, and the round is resolved on a hand that is not one, so the final
\* total is at least 17 and is never a soft 17 under H17; the dealer never draws on
\* a hard 17 or on a soft 17 under S17.
C32_DealerDrawsBelowStand ==
    [][/\ DealerDraws => (BelowStand /\ Len(dealer') = Len(dealer) + 1)
       /\ ResolveStep => (~BelowStand /\ hand_value(dealer).total >= 17)]_vars

\* under H17 the dealer has drawn to an ace and a six
C32_Witness ==
    /\ pc = "dealer"
    /\ request.rules.hit_soft_17
    /\ Len(dealer) >= 3
    /\ dealer[1] = "A" /\ dealer[2] = "6"

\* the soft-total table: the action for a soft total of 13 or more against an upcard
SoftTable(total, up, h17) ==
    IF total >= 19 THEN "S"
    ELSE IF total = 18 THEN
        IF up = "2" THEN (IF h17 THEN "DS" ELSE "S")
        ELSE IF up \in {"3", "4", "5", "6"} THEN "DS"
        ELSE IF up \in {"7", "8"} THEN "S"
        ELSE "H"
    ELSE IF total = 17 THEN (IF up \in {"3", "4", "5", "6"} THEN "DH" ELSE "H")
    ELSE IF total \in {15, 16} THEN (IF up \in {"4", "5", "6"} THEN "DH" ELSE "H")
    ELSE IF up \in {"5", "6"} THEN "DH" ELSE "H"

\* a finished call of basic_strategy_action on a soft hand of 13 or more
SoftCall ==
    /\ fn_ret # <<>> /\ fn_args.fn = "basic_strategy_action"
    /\ hand_value(fn_args.player).soft
    /\ hand_value(fn_args.player).total >= 13

\* C33: for every soft hand, every dealer upcard and every rules setting, surrender
\* enabled or not, basic_strategy_action returns the action of the soft-total table:
\* soft 19+ S; soft 18 DS vs 3-6, DS vs 2 under H17, S vs 2 under S17, S vs 7-8, H
\* otherwise; soft 17 DH vs 3-6 else H; soft 15-16 DH vs 4-6 else H; soft 13-14 DH
\* vs 5-6 else H.
C33_SoftTable ==
    SoftCall =>
        fn_ret[1] = [h17 |-> SoftTable(hand_value(fn_args.player).total,
                                       upcard_key(fn_args.dealer_up), TRUE),
                     s17 |-> SoftTable(hand_value(fn_args.player).total,
                                       upcard_key(fn_args.dealer_up), FALSE)]

\* the pool of a parallel run has been fed
ParallelRun == par_pc \in {"as_completed", "shutdown", "returned", "raised"}

\* C34: in a parallel run the k-th progress call reports hands_done equal to the sum
\* of the hands of the first k chunks consumed; the reported hands_done never
\* decreases and never exceeds request.hands, and once the result is aggregated the
\* last reported value is its rounds_played.
C34_ProgressIsConsumedHands ==
    ParallelRun =>
        /\ Len(progress) = Len(chunks)
        /\ \A k \in 1..Len(progress) :
              /\ progress[k].done = SumField(SubSeq(chunks, 1, k), "hands")
              /\ progress[k].done <= request.hands
              /\ k > 1 => progress[k - 1].done <= progress[k].done
        /\ par_pc = "returned" =>
              progress[Len(progress)].done = result[1].rounds_played

\* two chunks were consumed and aggregated, the second call reporting more hands
C34_Witness ==
    /\ par_pc = "returned"
    /\ Len(progress) = 2
    /\ progress[1].done > 0
    /\ progress[1].done < progress[2].done

\* C36: a hand is doubled only while it holds exactly two cards: a hand that has
\* taken a hit is never doubled, so every doubled hand ends with three cards, and
\* with twice the bet it had before the double.
C36_DoubledHasThreeCards ==
    \A i \in 1..Len(finished_hands) :
        finished_hands[i].doubled =>
            /\ Len(finished_hands[i].cards) = 3
            /\ finished_hands[i].bet = 2 * bet

\* C37: a hand is surrendered only as the first decision on the player's original
\* two cards: a surrendered hand holds the two cards dealt to the player and is the
\* only hand of its round, so no hand that has taken a hit and no hand created by
\* a split is finalized as surrendered.
C37_SurrenderFirstDecision ==
    \A i \in 1..Len(finished_hands) :
        finished_hands[i].surrendered =>
            /\ finished_hands[i].cards = player_start
            /\ Len(finished_hands) = 1
            /\ queue = <<>>

\* C38: in any round the player performs at most max_splits splits in total, so a
\* round ends with at most max_splits + 1 finished hands.
C38_SplitsPerRound ==
    Len(finished_hands) <= request.rules.max_splits + 1

\* C39: a reshuffle, with its reset of running_count to 0, happens only between
\* rounds: from the first card of a round to the dealer's last draw the shoe is not
\* rebuilt, so the cards dealt to the player and the dealer in the round are among
\* the pointer cards drawn from the present shoe.
C39_ReshuffleBetweenRounds ==
    pc \in {"deal", "insurance", "player", "dealer"} =>
        pointer >= Len(player_start) + Len(dealer)

====
